---- MODULE Spec2Model ----
(***************************************************************************)
(* A model of mdconv: the Converter facade, the format registry, the       *)
(* per-format converters, the PandocWrapper engine invoker and the PPTX    *)
(* slide-structure functions.                                              *)
(*                                                                         *)
(* A Python str is a TLA+ string; its characters are read with SubSeq.     *)
(* A Python bytes value is a sequence of byte tokens (see encode).         *)
(***************************************************************************)
EXTENDS Integers, Sequences, FiniteSets, TLC

VARIABLES
    registry,      \* ConverterRegistry._converters: lower-cased name -> class
    fs,            \* the filesystem: path -> [kind, data]
    pandoc_path,   \* PandocWrapper.pandoc_path of the constructed wrapper, or None
    call,          \* the call in progress (operation and arguments), or NoCall
    last,          \* what the last finished call did: result and trace of effects
    md_in,         \* slide functions: the Markdown text given
    md_opt,        \* slide functions: the slide_level option given (0: absent)
    md_level,      \* slide functions: the resolved slide level (0: not yet)
    md_out,        \* slide functions: outputs of successive normalizer passes;
                   \* metadata injector: its output
    md_style,      \* metadata injector: the options given
    reg_log,       \* the register calls made on a registry, in order
    api,           \* the API server: its module globals and its last response
    jobs,          \* concurrent pptx conversions: each one's position and locals
    session        \* a caller's process: the theme presets, the caller's options
                   \* mapping and what its conversions produced

vars == <<registry, fs, pandoc_path, call, last, md_in, md_opt, md_level, md_out,
          md_style, reg_log, api, jobs, session>>

\* no API server process is running
NoServer == [running |-> FALSE]

\* no caller's process is followed
NoSession == [running |-> FALSE]

(***************************************************************************)
(* Python str operations                                                   *)
(***************************************************************************)

\* s[i-1] in Python (1-based here)
Char(s, i) == SubSeq(s, i, i)

\* str.isspace() characters that can occur in the modelled texts
Whitespace == {" ", "\t", "\r", "\n"}

\* sub in s
Contains(s, sub) ==
    \E i \in 1..(Len(s) - Len(sub) + 1) : SubSeq(s, i, i + Len(sub) - 1) = sub

\* s.startswith(p)
startswith(s, p) == Len(p) <= Len(s) /\ SubSeq(s, 1, Len(p)) = p

\* s.strip()
strip(s) ==
    LET Between(keep) ==
            IF keep = {} THEN ""
            ELSE SubSeq(s, CHOOSE a \in keep : \A b \in keep : a <= b,
                           CHOOSE a \in keep : \A b \in keep : a >= b)
    IN  Between({i \in 1..Len(s) : Char(s, i) \notin Whitespace})

\* len(s) - len(s.lstrip(ch)): the number of leading ch characters
LeadingCount(s, ch) ==
    CHOOSE n \in 0..Len(s) :
        /\ \A i \in 1..n : Char(s, i) = ch
        /\ (n = Len(s) \/ Char(s, n + 1) # ch)

\* ch * n (by halving: the evaluation nests only a few levels deep)
RECURSIVE Repeat(_, _)
Repeat(ch, n) ==
    IF n <= 0 THEN ""
    ELSE IF n % 2 = 1 THEN ch \o Repeat(ch, n - 1)
    ELSE LET half == Repeat(ch, n \div 2) IN half \o half

\* the strings parts[lo..hi] put together
RECURSIVE ConcatRange(_, _, _)
ConcatRange(parts, lo, hi) ==
    IF lo > hi THEN ""
    ELSE IF lo = hi THEN parts[lo]
    ELSE LET mid == (lo + hi) \div 2
         IN  ConcatRange(parts, lo, mid) \o ConcatRange(parts, mid + 1, hi)

\* s.split(sep) for a one-character sep: the pieces between the
\* occurrences of sep, the k-th piece ending at the k-th occurrence
split(s, sep) ==
    LET nth(at, k) == IF k = 0 THEN 0
                      ELSE IF k > Cardinality(at) THEN Len(s) + 1
                      ELSE CHOOSE p \in at : Cardinality({q \in at : q <= p}) = k
        Pieces(at) == [k \in 1..(Cardinality(at) + 1) |->
                          SubSeq(s, nth(at, k - 1) + 1, nth(at, k) - 1)]
    IN  Pieces({i \in 1..Len(s) : Char(s, i) = sep})

\* sep.join(parts)
RECURSIVE join(_, _)
join(sep, parts) ==
    IF parts = <<>> THEN ""
    ELSE IF Len(parts) = 1 THEN parts[1]
    ELSE parts[1] \o sep \o join(sep, Tail(parts))

\* the length of the run of ch characters of s that starts at i
RunLength(s, ch, i) ==
    CHOOSE n \in 0..(Len(s) - i + 1) :
        /\ \A k \in 0..(n - 1) : Char(s, i + k) = ch
        /\ (i + n > Len(s) \/ Char(s, i + n) # ch)

\* re.sub(r"\n{3,}", "\n\n", s): every maximal run of three or more
\* newlines is replaced by two
RECURSIVE CollapseFrom(_, _)
CollapseFrom(s, i) ==
    LET Run(j, n) == SubSeq(s, i, j - 1)
                     \o (IF n >= 3 THEN "\n\n" ELSE SubSeq(s, j, j + n - 1))
                     \o CollapseFrom(s, j + n)
        First(j) == Run(j, RunLength(s, "\n", j))
        From(at) == IF at = {} THEN SubSeq(s, i, Len(s))
                    ELSE First(CHOOSE a \in at : \A b \in at : a <= b)
    IN  From({k \in i..Len(s) : Char(s, k) = "\n"})

collapse_blank_lines(s) == CollapseFrom(s, 1)

\* s.lower() and s.upper() differ only on letters
UpperCase == <<"A", "B", "C", "D", "E", "F", "G", "H", "I", "J", "K", "L", "M",
               "N", "O", "P", "Q", "R", "S", "T", "U", "V", "W", "X", "Y", "Z">>
LowerCase == <<"a", "b", "c", "d", "e", "f", "g", "h", "i", "j", "k", "l", "m",
               "n", "o", "p", "q", "r", "s", "t", "u", "v", "w", "x", "y", "z">>

LowerChar(c) ==
    IF \E k \in 1..26 : UpperCase[k] = c
    THEN LowerCase[CHOOSE k \in 1..26 : UpperCase[k] = c]
    ELSE c

\* s.lower()
lower(s) == ConcatRange([i \in 1..Len(s) |-> LowerChar(Char(s, i))], 1, Len(s))

\* the position of the last occurrence of ch in s, 0 when there is none
LastIndexOf(s, ch) ==
    LET Last(at) == IF at = {} THEN 0 ELSE CHOOSE a \in at : \A b \in at : a >= b
    IN  Last({i \in 1..Len(s) : Char(s, i) = ch})

(***************************************************************************)
(* Python values                                                           *)
(***************************************************************************)

\* None where a str is expected (Optional[str]): a string no path or text equals
None == "<None>"

\* bool(x) of an Optional[str]
TruthyStr(x) == x # None /\ x # ""

\* option values: bool, int, str, list and None, one record shape for all
PyBool(b) == [t |-> "bool", b |-> b, n |-> 0, s |-> "", items |-> <<>>]
PyInt(n) == [t |-> "int", b |-> FALSE, n |-> n, s |-> "", items |-> <<>>]
PyStr(s) == [t |-> "str", b |-> FALSE, n |-> 0, s |-> s, items |-> <<>>]
PyList(items) == [t |-> "list", b |-> FALSE, n |-> 0, s |-> "", items |-> items]
NoneValue == [t |-> "none", b |-> FALSE, n |-> 0, s |-> "", items |-> <<>>]

\* bool(v)
Truthy(v) ==
    CASE v.t = "bool" -> v.b
      [] v.t = "int" -> v.n # 0
      [] v.t = "str" -> v.s # ""
      [] v.t = "list" -> v.items # <<>>
      [] OTHER -> FALSE

\* repr(s) of a str without quotes or backslashes
ReprStr(s) == "'" \o s \o "'"

\* repr(v) of a scalar
ReprScalar(v) ==
    CASE v.t = "bool" -> (IF v.b THEN "True" ELSE "False")
      [] v.t = "int" -> ToString(v.n)
      [] v.t = "str" -> ReprStr(v.s)
      [] OTHER -> "None"

\* str(v), as an f-string formats it
Format(v) ==
    CASE v.t = "str" -> v.s
      [] v.t = "list" -> "[" \o join(", ", [i \in 1..Len(v.items) |-> ReprScalar(v.items[i])]) \o "]"
      [] OTHER -> ReprScalar(v)

\* a dict of keyword options: a function from its keys to values
EmptyDict == [k \in {} |-> NoneValue]

\* d.get(k, default)
Get(d, k, default) == IF k \in DOMAIN d THEN d[k] ELSE default

\* an insertion-ordered dict (pandoc_options): a sequence of [key, value]
DictKeys(d) == {d[i].key : i \in 1..Len(d)}

\* d[k] = v: a new key goes last, a present key keeps its place
DictSet(d, k, v) ==
    IF k \in DictKeys(d)
    THEN [i \in 1..Len(d) |-> IF d[i].key = k THEN [key |-> k, value |-> v] ELSE d[i]]
    ELSE Append(d, [key |-> k, value |-> v])

(***************************************************************************)
(* bytes: a sequence of byte tokens.  An ASCII byte is the one-character   *)
(* string of its character; InvalidByte is the byte 0xFF, which no UTF-8   *)
(* text contains.  The modelled str values are ASCII.                      *)
(***************************************************************************)

InvalidByte == "FF"

\* s.encode("utf-8")
encode(s) == [i \in 1..Len(s) |-> Char(s, i)]

\* whether b.decode("utf-8") raises UnicodeDecodeError
DecodeFails(b) == \E i \in 1..Len(b) : b[i] = InvalidByte

\* b.decode("utf-8") when it does not raise
decode(b) == ConcatRange(b, 1, Len(b))

(***************************************************************************)
(* The filesystem and pathlib.Path                                         *)
(***************************************************************************)

\* str(Path(p)): the empty path is the current directory
PathStr(p) == IF p = "" THEN "." ELSE p

\* Path(p).exists()
exists(files, p) == PathStr(p) \in DOMAIN files

\* Path(p).is_file()
is_file(files, p) == exists(files, p) /\ files[PathStr(p)].kind = "file"

\* str(Path(p).parent)
parent(p) ==
    LET Upto(q, k) == IF k = 0 THEN "."
                      ELSE IF k = 1 THEN "/"
                      ELSE SubSeq(q, 1, k - 1)
    IN  Upto(PathStr(p), LastIndexOf(PathStr(p), "/"))

Dir == [kind |-> "dir", data |-> <<>>]
File(data) == [kind |-> "file", data |-> data]

\* files with path p bound to entry e
WithPath(files, p, e) == [q \in DOMAIN files \cup {p} |-> IF q = p THEN e ELSE files[q]]

\* files without path p
WithoutPath(files, p) == [q \in DOMAIN files \ {p} |-> files[q]]

\* Path(p).mkdir(parents=True, exist_ok=True)
RECURSIVE mkdir_parents(_, _)
mkdir_parents(files, p) ==
    IF exists(files, p) \/ p = parent(p) THEN files
    ELSE WithPath(mkdir_parents(files, parent(p)), PathStr(p), Dir)

(***************************************************************************)
(* Outcomes of a call and the trace of its effects                         *)
(***************************************************************************)

\* one effect of a handler, in the order the handler performed it
Event(ev, path) ==
    [ev |-> ev, path |-> path, cmd |-> <<>>, stdin |-> <<>>, has_stdin |-> FALSE,
     stdout |-> ""]

\* subprocess.run(cmd, input=stdin, stdout=target, stderr=PIPE, check=True)
SpawnEvent(cmd, has_stdin, stdin, target) ==
    [ev |-> "subprocess.run", path |-> cmd[1], cmd |-> cmd, stdin |-> stdin,
     has_stdin |-> has_stdin, stdout |-> target]

\* a call that returned: value is its bytes, none tells a return of None
Returned(value, none, trace, files) ==
    [raised |-> "", value |-> value, none |-> none, message |-> "", stderr |-> "",
     available |-> <<>>, trace |-> trace, fs |-> files]

\* a call that raised the exception class `raised`
Raised(raised, message, stderr, trace, files) ==
    [raised |-> raised, value |-> <<>>, none |-> FALSE, message |-> message,
     stderr |-> stderr, available |-> <<>>, trace |-> trace, fs |-> files]

\* PandocNotFoundError()
PandocNotFoundMessage ==
    "Pandoc is not installed or not found in PATH. "
    \o "Install via pip: pip install pypandoc-binary "
    \o "or install manually from https://pandoc.org/installing.html"

PandocNotFoundError(trace, files) ==
    Raised("PandocNotFoundError", PandocNotFoundMessage, "", trace, files)

\* ConversionError(message, stderr)
ConversionError(message, stderr, trace, files) ==
    Raised("ConversionError",
           IF stderr # "" THEN message \o "\nError details: " \o stderr ELSE message,
           stderr, trace, files)

\* InvalidFormatError(format_name, available_formats)
InvalidFormatError(format_name, available_formats, trace, files) ==
    [Raised("InvalidFormatError",
            "Invalid format '" \o format_name \o "'. Available formats: "
            \o join(", ", available_formats), "", trace, files)
     EXCEPT !.available = available_formats]

(***************************************************************************)
(* PandocWrapper                                                           *)
(***************************************************************************)

\* shutil.which("pandoc"): the engine on the PATH
WhichPandoc == "/usr/bin/pandoc"

\* the binary that the pypandoc-binary package ships
PypandocBinary == "/site-packages/pypandoc/files/pandoc"

\* PandocWrapper._find_pandoc
_find_pandoc(files) ==
    IF is_file(files, WhichPandoc) THEN WhichPandoc
    ELSE IF is_file(files, PypandocBinary) THEN PypandocBinary
    ELSE None

\* PandocWrapper.__init__ as it would be if it probed a supplied path and
\* fell back to discovery when the path names nothing
PandocWrapper_init_Probing(arg_pandoc_path, files) ==
    IF TruthyStr(arg_pandoc_path) /\ exists(files, arg_pandoc_path) THEN arg_pandoc_path
    ELSE _find_pandoc(files)

\* PandocWrapper.__init__: the pandoc_path it keeps, None when it raises
PandocWrapper_init(arg_pandoc_path, files) ==
    IF TruthyStr(arg_pandoc_path) THEN arg_pandoc_path ELSE _find_pandoc(files)

\* the flags of one entry as they would be if only True were singled out:
\* False then falls to the scalar branch and is emitted as --key=False
FlagsOf_FalseAsScalar(key, value) ==
    IF value.t = "bool" /\ value.b THEN <<"--" \o key>>
    ELSE IF value.t = "list"
         THEN [i \in 1..Len(value.items) |-> "--" \o key \o "=" \o Format(value.items[i])]
         ELSE <<"--" \o key \o "=" \o Format(value)>>

\* the flags of one entry of the options mapping
FlagsOf(key, value) ==
    IF value.t = "bool" /\ value.b THEN <<"--" \o key>>
    ELSE IF value.t = "bool" THEN <<>>
    ELSE IF value.t = "list"
         THEN [i \in 1..Len(value.items) |-> "--" \o key \o "=" \o Format(value.items[i])]
         ELSE <<"--" \o key \o "=" \o Format(value)>>

\* the "Add options" loop of PandocWrapper.convert
RECURSIVE OptionFlags(_)
OptionFlags(options) ==
    IF options = <<>> THEN <<>>
    ELSE FlagsOf(Head(options).key, Head(options).value) \o OptionFlags(Tail(options))

\* the longest input that is still tried as a path is one shorter
PathLengthLimit == 260

\* input_is_file as it would be with "<=" for "<"
input_is_file_Inclusive(files, input_data) ==
    /\ Len(input_data) <= PathLengthLimit
    /\ ~Contains(input_data, "\n")
    /\ exists(files, input_data)

\* input_is_file of PandocWrapper.convert (is_file of PPTXConverter.convert)
input_is_file(files, input_data) ==
    /\ Len(input_data) < PathLengthLimit
    /\ ~Contains(input_data, "\n")
    /\ exists(files, input_data)

formats_requiring_stdout_flag == {"docx", "epub", "pptx"}

\* the input argument of the command line
InputArgument(files, input_data) ==
    IF input_is_file(files, input_data) THEN <<input_data>> ELSE <<"-">>

\* the output option as it would be without the formats_requiring_stdout_flag
\* branch
OutputOption_NoStdoutFlag(output_format, output_file) ==
    IF TruthyStr(output_file) THEN <<"-o", output_file>> ELSE <<>>

\* the output option of the command line
OutputOption(output_format, output_file) ==
    IF TruthyStr(output_file) THEN <<"-o", output_file>>
    ELSE IF output_format \in formats_requiring_stdout_flag THEN <<"-o", "-">>
    ELSE <<>>

\* cmd as it would be if the output were handled before the input
CommandLine_OutputFirst(self_pandoc_path, input_data, input_format, output_format, output_file, options, files) ==
    <<self_pandoc_path, "--from=" \o input_format, "--to=" \o output_format>>
    \o OptionFlags(options)
    \o OutputOption(output_format, output_file)
    \o InputArgument(files, input_data)

\* cmd as PandocWrapper.convert builds it
CommandLine(self_pandoc_path, input_data, input_format, output_format, output_file, options, files) ==
    <<self_pandoc_path, "--from=" \o input_format, "--to=" \o output_format>>
    \o OptionFlags(options)
    \o InputArgument(files, input_data)
    \o OutputOption(output_format, output_file)

\* str(e) of the CalledProcessError of a positive exit status
CalledProcessErrorStr(cmd, rc) ==
    "Command '[" \o join(", ", [i \in 1..Len(cmd) |-> ReprStr(cmd[i])])
    \o "]' returned non-zero exit status " \o ToString(rc) \o "."

\* the except clause for CalledProcessError
OnCalledProcessError(cmd, eng, trace, files) ==
    LET full_error(error_msg) ==
            "Pandoc command: " \o join(" ", cmd)
            \o "\nPandoc stderr: " \o error_msg
            \o "\nPython error: " \o CalledProcessErrorStr(cmd, eng.rc)
        Report(error_msg) ==
            ConversionError("Pandoc conversion failed: " \o error_msg,
                            IF Contains(error_msg, "File name too long")
                               \/ Contains(error_msg, "[Errno 36]")
                            THEN full_error(error_msg) ELSE error_msg,
                            trace, files)
    IN  IF eng.stderr # <<>> /\ DecodeFails(eng.stderr)
        THEN Raised("UnicodeDecodeError", "'utf-8' codec can't decode byte 0xff", "",
                    trace, files)
        ELSE Report(IF eng.stderr # <<>> THEN decode(eng.stderr)
                    ELSE "Unknown pandoc error")

\* PandocWrapper.convert.  eng is what the engine process does when it runs:
\* [rc, stdout, stderr].  The process is not started when the engine path
\* names nothing (FileNotFoundError) or names a directory (PermissionError).
\* The file the engine writes for "-o <path>" is the engine's own effect and
\* is not kept in the modelled filesystem.
PandocWrapper_convert(self_pandoc_path, input_data, input_format, output_format, output_file, options, files, eng) ==
    LET stdout_target == IF TruthyStr(output_file) THEN "DEVNULL" ELSE "PIPE"
        Run(cmd, trace) ==
            IF ~exists(files, self_pandoc_path) THEN PandocNotFoundError(trace, files)
            ELSE IF ~is_file(files, self_pandoc_path)
                 THEN Raised("PermissionError", "[Errno 13] Permission denied", "",
                             trace, files)
            ELSE IF eng.rc # 0 THEN OnCalledProcessError(cmd, eng, trace, files)
            ELSE IF stdout_target = "DEVNULL" THEN Returned(<<>>, FALSE, trace, files)
            ELSE Returned(eng.stdout, FALSE, trace, files)
        Spawn(cmd, to_stdin) ==
            Run(cmd, <<SpawnEvent(cmd, to_stdin,
                                  IF to_stdin THEN encode(input_data) ELSE <<>>,
                                  stdout_target)>>)
    IN  Spawn(CommandLine(self_pandoc_path, input_data, input_format, output_format,
                          output_file, options, files),
              ~input_is_file(files, input_data))

(***************************************************************************)
(* Per-format converters: the pandoc_options each builds                   *)
(***************************************************************************)

False == PyBool(FALSE)
True == PyBool(TRUE)

\* the "toc" block shared by the converters: toc and toc-depth when toc is
\* truthy (toc_default is the default of options.get("toc", ...))
WithToc(pandoc_options, options, toc_default) ==
    IF Truthy(Get(options, "toc", toc_default))
    THEN DictSet(DictSet(pandoc_options, "toc", True),
                 "toc-depth", Get(options, "toc_depth", PyInt(3)))
    ELSE pandoc_options

\* pandoc_options[flag] = options[key] when key is in options
WithCopied(pandoc_options, options, key, flag) ==
    IF key \in DOMAIN options THEN DictSet(pandoc_options, flag, options[key])
    ELSE pandoc_options

\* pandoc_options[flag] = True when options.get(key, False) is truthy
WithSwitch(pandoc_options, options, key, flag) ==
    IF Truthy(Get(options, key, False)) THEN DictSet(pandoc_options, flag, True)
    ELSE pandoc_options

HTMLConverter_options(options) ==
    LET WithCss(pandoc_options) ==
            IF "css" \in DOMAIN options
            THEN DictSet(pandoc_options, "css", IF options["css"].t = "str"
                                                THEN PyList(<<options["css"]>>)
                                                ELSE options["css"])
            ELSE pandoc_options
        o1 == WithSwitch(<<>>, options, "standalone", "standalone")
        o2 == WithToc(o1, options, False)
        o3 == WithCss(o2)
        o4 == WithCopied(o3, options, "template", "template")
    IN  WithSwitch(o4, options, "mathjax", "mathjax")

DOCXConverter_options(options) ==
    WithToc(WithCopied(<<>>, options, "reference_doc", "reference-doc"), options, False)

LaTeXConverter_options(options) ==
    LET o1 == WithSwitch(<<>>, options, "standalone", "standalone")
        o2 == DictSet(o1, "variable",
                      IF "documentclass" \in DOMAIN options
                      THEN PyStr("documentclass:" \o Format(options["documentclass"]))
                      ELSE PyStr("documentclass:article"))
        o3 == WithToc(o2, options, False)
    IN  WithCopied(o3, options, "geometry", "geometry")

\* the options of EPUBConverter.convert as they would be if toc defaulted to
\* False
EPUBConverter_options_TocOff(options) ==
    LET o1 == WithToc(<<>>, options, False)
        o2 == WithCopied(o1, options, "epub_cover_image", "epub-cover-image")
    IN  WithCopied(o2, options, "epub_metadata", "epub-metadata")

EPUBConverter_options(options) ==
    LET o1 == WithToc(<<>>, options, True)
        o2 == WithCopied(o1, options, "epub_cover_image", "epub-cover-image")
    IN  WithCopied(o2, options, "epub_metadata", "epub-metadata")

\* PDFConverter.convert, the engines of pandoc
PDFConverter_options(options, pdf_engine) ==
    LET WithFontsize(pandoc_options) ==
            IF "fontsize" \in DOMAIN options
            THEN DictSet(pandoc_options, "variable",
                         PyStr("fontsize:" \o Format(options["fontsize"])))
            ELSE pandoc_options
        o1 == DictSet(<<>>, "pdf-engine", pdf_engine)
        o2 == WithToc(o1, options, False)
        o3 == WithCopied(o2, options, "highlight_style", "highlight-style")
    IN  WithFontsize(WithCopied(o3, options, "geometry", "geometry"))

\* PurePDFConverter.convert, the options of its HTML step
PurePDFConverter_options(options) ==
    WithSwitch(WithToc(<<>>, options, False), options, "standalone", "standalone")

\* the converters that only build options and call the wrapper
HTMLConverter_convert(self_pandoc_path, input_data, output_file, options, files, eng) ==
    PandocWrapper_convert(self_pandoc_path, input_data, "markdown", "html", output_file,
                          HTMLConverter_options(options), files, eng)

DOCXConverter_convert(self_pandoc_path, input_data, output_file, options, files, eng) ==
    PandocWrapper_convert(self_pandoc_path, input_data, "markdown", "docx", output_file,
                          DOCXConverter_options(options), files, eng)

LaTeXConverter_convert(self_pandoc_path, input_data, output_file, options, files, eng) ==
    PandocWrapper_convert(self_pandoc_path, input_data, "markdown", "latex", output_file,
                          LaTeXConverter_options(options), files, eng)

EPUBConverter_convert(self_pandoc_path, input_data, output_file, options, files, eng) ==
    PandocWrapper_convert(self_pandoc_path, input_data, "markdown", "epub", output_file,
                          EPUBConverter_options(options), files, eng)

(***************************************************************************)
(* PDFConverter and PurePDFConverter                                       *)
(***************************************************************************)

\* the first position >= i at which sub occurs in s, 0 when there is none
FindFrom(s, sub, i) ==
    LET First(at) == IF at = {} THEN 0 ELSE CHOOSE a \in at : \A b \in at : a <= b
    IN  First({k \in i..(Len(s) - Len(sub) + 1) : SubSeq(s, k, k + Len(sub) - 1) = sub})

\* re.sub(r'<style[^>]*>.*?</style>', '', html, flags=DOTALL | IGNORECASE),
\* from position i on; low is html.lower()
RECURSIVE RemoveStyles(_, _, _)
RemoveStyles(html, low, i) ==
    LET Cut(open, close) ==
            IF close = 0 THEN SubSeq(html, i, Len(html))
            ELSE SubSeq(html, i, open - 1) \o RemoveStyles(html, low, close + 8)
        Closing(open, gt) ==
            Cut(open, IF gt = 0 THEN 0 ELSE FindFrom(low, "</style>", gt + 1))
        Opening(open) ==
            Closing(open, IF open = 0 THEN 0 ELSE FindFrom(low, ">", open + 6))
    IN  Opening(FindFrom(low, "<style", i))

\* the minimal_css literal
minimal_css ==
    "\n"
    \o "    <style>\n"
    \o "        body {\n"
    \o "            font-family: Arial, Helvetica, sans-serif;\n"
    \o "            font-size: 12pt;\n"
    \o "            line-height: 1.4;\n"
    \o "            margin: 1in;\n"
    \o "        }\n"
    \o "        h1 {\n"
    \o "            font-size: 24pt;\n"
    \o "            font-weight: bold;\n"
    \o "            margin-top: 1em;\n"
    \o "            margin-bottom: 0.5em;\n"
    \o "        }\n"
    \o "        h2 {\n"
    \o "            font-size: 20pt;\n"
    \o "            font-weight: bold;\n"
    \o "            margin-top: 0.8em;\n"
    \o "            margin-bottom: 0.4em;\n"
    \o "        }\n"
    \o "        h3 {\n"
    \o "            font-size: 16pt;\n"
    \o "            font-weight: bold;\n"
    \o "            margin-top: 0.6em;\n"
    \o "            margin-bottom: 0.3em;\n"
    \o "        }\n"
    \o "        p {\n"
    \o "            margin: 0.5em 0;\n"
    \o "        }\n"
    \o "        ul, ol {\n"
    \o "            margin: 0.5em 0;\n"
    \o "            padding-left: 2em;\n"
    \o "        }\n"
    \o "        li {\n"
    \o "            margin: 0.2em 0;\n"
    \o "        }\n"
    \o "        code {\n"
    \o "            font-family: \"Courier New\", monospace;\n"
    \o "            font-size: 10pt;\n"
    \o "        }\n"
    \o "        pre {\n"
    \o "            font-family: \"Courier New\", monospace;\n"
    \o "            font-size: 10pt;\n"
    \o "            margin: 1em 0;\n"
    \o "            padding: 0.5em;\n"
    \o "            border: 1px solid #ccc;\n"
    \o "        }\n"
    \o "        table {\n"
    \o "            border-collapse: collapse;\n"
    \o "            margin: 1em 0;\n"
    \o "        }\n"
    \o "        th, td {\n"
    \o "            border: 1px solid #ccc;\n"
    \o "            padding: 0.3em 0.5em;\n"
    \o "        }\n"
    \o "        th {\n"
    \o "            font-weight: bold;\n"
    \o "            background-color: #f0f0f0;\n"
    \o "        }\n"
    \o "    </style>\n"

\* PurePDFConverter._clean_html_for_xhtml2pdf: [raised, html]
_clean_html_for_xhtml2pdf(html0) ==
    LET Insert(html, head_match, body_match) ==
            IF head_match # 0
            THEN [raised |-> "",
                  html |-> SubSeq(html, 1, head_match - 1) \o minimal_css
                           \o SubSeq(html, head_match, Len(html))]
            ELSE IF body_match # 0
                 \* minimal_css is assigned in the other branch only
                 THEN [raised |-> "UnboundLocalError", html |-> html]
                 ELSE [raised |-> "", html |-> html]
        body_end(low, body_start) ==
            IF body_start = 0 THEN 0 ELSE FindFrom(low, ">", body_start + 5)
        Search(html, low) ==
            Insert(html, FindFrom(low, "</head>", 1),
                   body_end(low, FindFrom(low, "<body", 1)))
        Lowered(html) == Search(html, lower(html))
    IN  Lowered(RemoveStyles(html0, lower(html0), 1))

\* pisa.CreatePDF(html_str, dest=...)
RenderEvent(html_str, dest) ==
    [ev |-> "pisa.CreatePDF", path |-> dest, cmd |-> <<html_str>>, stdin |-> <<>>,
     has_stdin |-> FALSE, stdout |-> ""]

\* PurePDFConverter.convert.  render is what the renderer does:
\* [installed, err, pdf]
PurePDFConverter_convert(self_pandoc_path, input_data, output_file, options, files, eng, render) ==
    IF ~render.installed
    THEN ConversionError("xhtml2pdf is not installed. Install it with: pip install xhtml2pdf",
                         "", <<>>, files)
    ELSE
    LET dest == IF TruthyStr(output_file) THEN PathStr(output_file) ELSE "BytesIO"
        \* "with open(output_file, 'wb') as f": pisa.CreatePDF(html_str, dest=f)
        ToFile(step, html_str, made, trace_file) ==
            IF exists(made, output_file) /\ ~is_file(made, output_file)
            THEN Raised("IsADirectoryError", "[Errno 21] Is a directory", "",
                        Append(step.trace, Event("mkdir", parent(output_file))), made)
            ELSE IF render.err # 0
                 THEN ConversionError("xhtml2pdf conversion failed: "
                                      \o ToString(render.err), "", trace_file,
                                      WithPath(made, dest, File(<<>>)))
                 ELSE Returned(<<>>, FALSE, trace_file,
                               WithPath(made, dest, File(render.pdf)))
        \* pisa.CreatePDF(html_str, dest=BytesIO())
        ToBuffer(step, trace_buffer) ==
            IF render.err # 0
            THEN ConversionError("xhtml2pdf conversion failed: " \o ToString(render.err),
                                 "", trace_buffer, step.fs)
            ELSE Returned(render.pdf, FALSE, trace_buffer, step.fs)
        Rendered(step, cleaned) ==
            IF cleaned.raised # ""
            THEN Raised(cleaned.raised,
                        "local variable 'minimal_css' referenced before assignment", "",
                        step.trace, step.fs)
            ELSE IF TruthyStr(output_file)
                 THEN ToFile(step, cleaned.html,
                             mkdir_parents(step.fs, parent(output_file)),
                             step.trace \o <<Event("mkdir", parent(output_file)),
                                             Event("open", dest),
                                             RenderEvent(cleaned.html, dest)>>)
                 ELSE ToBuffer(step, Append(step.trace, RenderEvent(cleaned.html, dest)))
        Cleaned(step) ==
            IF step.raised # "" THEN step
            ELSE IF step.value = <<>>
                 THEN ConversionError("Failed to convert markdown to HTML", "",
                                      step.trace, step.fs)
            ELSE IF DecodeFails(step.value)
                 THEN Raised("UnicodeDecodeError", "'utf-8' codec can't decode byte 0xff",
                             "", step.trace, step.fs)
            ELSE Rendered(step, _clean_html_for_xhtml2pdf(decode(step.value)))
    IN  Cleaned(PandocWrapper_convert(self_pandoc_path, input_data, "markdown", "html",
                                      None, PurePDFConverter_options(options), files, eng))

\* PDFConverter.convert as it would be if the default of pdf_engine were
\* pdflatex
PDFConverter_convert_DefaultPdflatex(self_pandoc_path, input_data, output_file, options, files, eng, render) ==
    LET Dispatch(pdf_engine) ==
            IF pdf_engine = PyStr("xhtml2pdf")
            THEN PurePDFConverter_convert(self_pandoc_path, input_data, output_file,
                                          options, files, eng, render)
            ELSE PandocWrapper_convert(self_pandoc_path, input_data, "markdown", "pdf",
                                       output_file,
                                       PDFConverter_options(options, pdf_engine),
                                       files, eng)
    IN  Dispatch(Get(options, "pdf_engine", PyStr("pdflatex")))

\* PDFConverter.convert
PDFConverter_convert(self_pandoc_path, input_data, output_file, options, files, eng, render) ==
    LET Dispatch(pdf_engine) ==
            IF pdf_engine = PyStr("xhtml2pdf")
            THEN PurePDFConverter_convert(self_pandoc_path, input_data, output_file,
                                          options, files, eng, render)
            ELSE PandocWrapper_convert(self_pandoc_path, input_data, "markdown", "pdf",
                                       output_file,
                                       PDFConverter_options(options, pdf_engine),
                                       files, eng)
    IN  Dispatch(Get(options, "pdf_engine", PyStr("xhtml2pdf")))

(***************************************************************************)
(* PPTXConverter: slide-level detection and slide-structure normalizer     *)
(***************************************************************************)

\* the level appended to heading_levels for one line, 0 when none is
HeadingLevelOf(line) ==
    LET Level(stripped, level) ==
            IF startswith(stripped, "#") /\ level > 0 /\ level <= 6 THEN level ELSE 0
        Stripped(stripped) == Level(stripped, LeadingCount(stripped, "#"))
    IN  Stripped(strip(line))

RECURSIVE CountLevel(_, _)
CountLevel(lines, k) ==
    IF lines = <<>> THEN 0
    ELSE (IF HeadingLevelOf(Head(lines)) = k THEN 1 ELSE 0) + CountLevel(Tail(lines), k)

\* _detect_slide_level as it would be with ">= 1" for "> 1"
_detect_slide_level_OneSuffices(content) ==
    LET Decide(lines, level_2_count, level_1_count) ==
            IF \A i \in 1..Len(lines) : HeadingLevelOf(lines[i]) = 0 THEN 1
            ELSE IF level_2_count >= 1 /\ level_1_count <= 1 THEN 2
            ELSE 1
        Count(lines) == Decide(lines, CountLevel(lines, 2), CountLevel(lines, 1))
    IN  Count(split(content, "\n"))

_detect_slide_level(content) ==
    LET Decide(lines, level_2_count, level_1_count) ==
            IF \A i \in 1..Len(lines) : HeadingLevelOf(lines[i]) = 0 THEN 1
            ELSE IF level_2_count > 1 /\ level_1_count <= 1 THEN 2
            ELSE 1
        Count(lines) == Decide(lines, CountLevel(lines, 2), CountLevel(lines, 1))
    IN  Count(split(content, "\n"))

\* the test of the first loop as it would be if a deeper heading counted as
\* a slide heading too
is_slide_heading_OrDeeper(line, slide_level) ==
    startswith(strip(line), Repeat("#", slide_level))

is_slide_heading(line, slide_level) ==
    LET Test(stripped) ==
            /\ startswith(stripped, Repeat("#", slide_level))
            /\ ~startswith(stripped, Repeat("#", slide_level + 1))
            /\ Len(stripped) > slide_level
            /\ Char(stripped, slide_level + 1) \in {" ", "\t"}
    IN  Test(strip(line))

\* the first loop as it would be without "Ensure blank line before
\* horizontal rule"
RECURSIVE InsertBreaks_NoBlankBefore(_, _, _, _)
InsertBreaks_NoBlankBefore(lines, slide_level, found_first_slide, normalized_lines) ==
    IF lines = <<>> THEN normalized_lines
    ELSE
        LET before(heading) ==
                IF heading /\ found_first_slide
                THEN normalized_lines \o <<"---", "">>
                ELSE normalized_lines
            Step(line, heading) ==
                InsertBreaks_NoBlankBefore(Tail(lines), slide_level,
                                           found_first_slide \/ heading,
                                           Append(before(heading), line))
        IN  Step(Head(lines), is_slide_heading(Head(lines), slide_level))

\* the first loop as it would be if the line were appended in an else
\* branch: a later slide heading gives way to its break marker
RECURSIVE InsertBreaks_MarkerForHeading(_, _, _, _)
InsertBreaks_MarkerForHeading(lines, slide_level, found_first_slide, normalized_lines) ==
    IF lines = <<>> THEN normalized_lines
    ELSE
        LET n == Len(normalized_lines)
            after(line, heading) ==
                IF heading /\ found_first_slide
                THEN (IF n > 0 /\ strip(normalized_lines[n]) # ""
                      THEN normalized_lines \o <<"">>
                      ELSE normalized_lines) \o <<"---", "">>
                ELSE Append(normalized_lines, line)
            Step(line, heading) ==
                InsertBreaks_MarkerForHeading(Tail(lines), slide_level,
                                              found_first_slide \/ heading,
                                              after(line, heading))
        IN  Step(Head(lines), is_slide_heading(Head(lines), slide_level))

\* the first loop: a break marker before every slide heading but the first
RECURSIVE InsertBreaks(_, _, _, _)
InsertBreaks(lines, slide_level, found_first_slide, normalized_lines) ==
    IF lines = <<>> THEN normalized_lines
    ELSE
        LET n == Len(normalized_lines)
            before(heading) ==
                IF heading /\ found_first_slide
                THEN (IF n > 0 /\ strip(normalized_lines[n]) # ""
                      THEN normalized_lines \o <<"">>
                      ELSE normalized_lines) \o <<"---", "">>
                ELSE normalized_lines
            Step(line, heading) ==
                InsertBreaks(Tail(lines), slide_level,
                             found_first_slide \/ heading,
                             Append(before(heading), line))
        IN  Step(Head(lines), is_slide_heading(Head(lines), slide_level))

\* the second loop: a blank line after a slide heading that lacks one
RECURSIVE SpaceHeadings(_, _, _)
SpaceHeadings(lines_result, i, heading_pattern) ==
    IF i > Len(lines_result) THEN <<>>
    ELSE
        LET line == lines_result[i]
            add == /\ startswith(strip(line), heading_pattern)
                   /\ i + 1 <= Len(lines_result)
                   /\ strip(lines_result[i + 1]) # ""
                   /\ ~startswith(strip(lines_result[i + 1]), "---")
        IN  (IF add THEN <<line, "">> ELSE <<line>>)
            \o SpaceHeadings(lines_result, i + 1, heading_pattern)

_normalize_slide_structure(content, slide_level) ==
    LET lines == split(content, "\n")
        result1 == join("\n", InsertBreaks(lines, slide_level, FALSE, <<>>))
        heading_pattern == Repeat("#", slide_level) \o " "
        fixed_lines == SpaceHeadings(split(result1, "\n"), 1, heading_pattern)
    IN  collapse_blank_lines(join("\n", fixed_lines))

(***************************************************************************)
(* PPTXConverter: themes, metadata injection and convert                   *)
(***************************************************************************)

Theme(theme_color, background_color, heading_color, font_family, font_size) ==
    [k \in {"theme_color", "background_color", "heading_color", "font_family",
            "font_size"} |->
        CASE k = "theme_color" -> PyStr(theme_color)
          [] k = "background_color" -> PyStr(background_color)
          [] k = "heading_color" -> PyStr(heading_color)
          [] k = "font_family" -> PyStr(font_family)
          [] OTHER -> PyInt(font_size)]

PPTX_THEMES ==
    [name \in {"modern", "classic", "minimal", "dark", "corporate"} |->
        CASE name = "modern" -> Theme("#3498db", "#ffffff", "#2c3e50", "Arial", 18)
          [] name = "classic" -> Theme("#1a1a1a", "#ffffff", "#000000", "Times New Roman", 16)
          [] name = "minimal" -> Theme("#333333", "#f8f8f8", "#222222", "Helvetica", 20)
          [] name = "dark" -> Theme("#e74c3c", "#2c3e50", "#ecf0f1", "Arial", 18)
          [] OTHER -> Theme("#0066cc", "#ffffff", "#003366", "Calibri", 18)]

\* whether get_theme(theme) raises KeyError; theme is an option value
get_theme_raises(theme) == ~(theme.t = "str" /\ theme.s \in DOMAIN PPTX_THEMES)

\* get_theme(theme) when it does not raise
get_theme(theme) == PPTX_THEMES[theme.s]

\* "Handle theme presets" as it would be if the preset values replaced the
\* caller's
WithTheme_PresetWins(options) ==
    IF "theme" \in DOMAIN options /\ ~get_theme_raises(options["theme"])
    THEN LET theme_options == get_theme(options["theme"])
         IN  [k \in DOMAIN options \cup DOMAIN theme_options |->
                 IF k \in DOMAIN theme_options THEN theme_options[k] ELSE options[k]]
    ELSE options

\* "Handle theme presets": the options after the merge
WithTheme(options) ==
    IF "theme" \in DOMAIN options /\ ~get_theme_raises(options["theme"])
    THEN LET theme_options == get_theme(options["theme"])
         IN  [k \in DOMAIN options \cup DOMAIN theme_options |->
                 IF k \in DOMAIN options THEN options[k] ELSE theme_options[k]]
    ELSE options

\* option key and YAML key of each styling option, in the order of the dict
styling_options ==
    << <<"theme_color", "theme-color">>, <<"background_color", "background-color">>,
       <<"heading_color", "heading-color">>, <<"font_family", "font-family">>,
       <<"font_size", "font-size">>, <<"background_image", "background-image">> >>

RECURSIVE MetadataLines(_, _)
MetadataLines(options, i) ==
    IF i > Len(styling_options) THEN <<>>
    ELSE (IF styling_options[i][1] \in DOMAIN options
          THEN <<styling_options[i][2] \o ": " \o Format(options[styling_options[i][1]])>>
          ELSE <<>>) \o MetadataLines(options, i + 1)

\* _inject_styling_metadata as it would be without "If no styling metadata to
\* add, return original content"
_inject_styling_metadata_NoEarlyReturn(content, options) ==
    LET combined_yaml(existing_yaml, new_yaml) ==
            IF strip(existing_yaml) # ""
            THEN existing_yaml \o "\n" \o new_yaml
            ELSE new_yaml
        Merge(metadata_lines, lines, yaml_end_idx) ==
            IF startswith(strip(content), "---") /\ yaml_end_idx # 0
            THEN "---\n"
                 \o combined_yaml(join("\n", SubSeq(lines, 2, yaml_end_idx - 1)),
                                  join("\n", metadata_lines))
                 \o "\n---\n"
                 \o join("\n", SubSeq(lines, yaml_end_idx + 1, Len(lines)))
            ELSE "---\n" \o join("\n", metadata_lines) \o "\n---\n" \o content
        yaml_end_idx(ends) ==
            IF ends = {} THEN 0 ELSE CHOOSE a \in ends : \A b \in ends : a <= b
        Find(metadata_lines, lines) ==
            Merge(metadata_lines, lines,
                  yaml_end_idx({i \in 2..Len(lines) : strip(lines[i]) = "---"}))
    IN  Find(MetadataLines(options, 1), split(content, "\n"))

\* _inject_styling_metadata as it would be if the new pairs went before the
\* existing ones
_inject_styling_metadata_NewFirst(content, options) ==
    LET combined_yaml(existing_yaml, new_yaml) ==
            IF strip(existing_yaml) # ""
            THEN new_yaml \o "\n" \o existing_yaml
            ELSE new_yaml
        Merge(metadata_lines, lines, yaml_end_idx) ==
            IF metadata_lines = <<>> THEN content
            ELSE IF startswith(strip(content), "---") /\ yaml_end_idx # 0
                 THEN "---\n"
                      \o combined_yaml(join("\n", SubSeq(lines, 2, yaml_end_idx - 1)),
                                       join("\n", metadata_lines))
                      \o "\n---\n"
                      \o join("\n", SubSeq(lines, yaml_end_idx + 1, Len(lines)))
                 ELSE "---\n" \o join("\n", metadata_lines) \o "\n---\n" \o content
        yaml_end_idx(ends) ==
            IF ends = {} THEN 0 ELSE CHOOSE a \in ends : \A b \in ends : a <= b
        Find(metadata_lines, lines) ==
            Merge(metadata_lines, lines,
                  yaml_end_idx({i \in 2..Len(lines) : strip(lines[i]) = "---"}))
    IN  Find(MetadataLines(options, 1), split(content, "\n"))

\* PPTXConverter._inject_styling_metadata with is_file=False
_inject_styling_metadata(content, options) ==
    LET combined_yaml(existing_yaml, new_yaml) ==
            IF strip(existing_yaml) # ""
            THEN existing_yaml \o "\n" \o new_yaml
            ELSE new_yaml
        Merge(metadata_lines, lines, yaml_end_idx) ==
            IF metadata_lines = <<>> THEN content
            ELSE IF startswith(strip(content), "---") /\ yaml_end_idx # 0
                 THEN "---\n"
                      \o combined_yaml(join("\n", SubSeq(lines, 2, yaml_end_idx - 1)),
                                       join("\n", metadata_lines))
                      \o "\n---\n"
                      \o join("\n", SubSeq(lines, yaml_end_idx + 1, Len(lines)))
                 ELSE "---\n" \o join("\n", metadata_lines) \o "\n---\n" \o content
        yaml_end_idx(ends) ==
            IF ends = {} THEN 0 ELSE CHOOSE a \in ends : \A b \in ends : a <= b
        Find(metadata_lines, lines) ==
            Merge(metadata_lines, lines,
                  yaml_end_idx({i \in 2..Len(lines) : strip(lines[i]) = "---"}))
    IN  Find(MetadataLines(options, 1), split(content, "\n"))

\* slide_level of PPTXConverter.convert: the option, detected when it is
\* absent or None
ResolvedSlideLevel(options, content) ==
    IF Get(options, "slide_level", NoneValue).t = "none"
    THEN PyInt(_detect_slide_level(content))
    ELSE options["slide_level"]

PPTXConverter_options(options, slide_level) ==
    LET o1 == DictSet(<<>>, "slide-level", slide_level)
        o2 == WithCopied(o1, options, "reference_doc", "reference-doc")
    IN  WithToc(o2, options, False)

\* tmp_file.write(input_with_metadata)
WriteEvent(path, text) ==
    [ev |-> "write", path |-> path, cmd |-> <<text>>, stdin |-> <<>>,
     has_stdin |-> FALSE, stdout |-> ""]

\* PPTXConverter.convert.  tmp is what the temporary file does: [name, full];
\* name is the fresh name NamedTemporaryFile picks, full tells that the
\* write to it fails (for lack of space; a text that UTF-8 cannot encode
\* fails the same way, with UnicodeEncodeError).
PPTXConverter_convert(self_pandoc_path, input_data, output_file, options0, files, eng, tmp) ==
    LET from_file == input_is_file(files, input_data)
        made(text) == <<Event("NamedTemporaryFile", tmp.name),
                        WriteEvent(tmp.name, text)>>
        \* the finally clause: the temporary file is unlinked
        Unlinked(run, text) ==
            [run EXCEPT !.trace = made(text) \o run.trace
                                  \o <<Event("unlink", tmp.name)>>,
                        !.fs = WithoutPath(run.fs, tmp.name)]
        \* the with block is entered before the try: a write that fails
        \* leaves the function with the file in place
        Written(input_with_metadata, pandoc_options) ==
            IF tmp.full
            THEN Raised("OSError", "[Errno 28] No space left on device", "",
                        made(input_with_metadata),
                        WithPath(files, tmp.name, File(<<>>)))
            ELSE Unlinked(PandocWrapper_convert(
                     self_pandoc_path, tmp.name, "markdown", "pptx", output_file,
                     pandoc_options,
                     WithPath(files, tmp.name, File(encode(input_with_metadata))), eng),
                          input_with_metadata)
        Prepared(content, options, slide_level) ==
            IF slide_level.t # "int"
            THEN Raised("TypeError", "can't multiply sequence by non-int", "", <<>>, files)
            ELSE Written(_inject_styling_metadata(
                             _normalize_slide_structure(content, slide_level.n), options),
                         PPTXConverter_options(options, slide_level))
        \* options["slide_level"] = slide_level
        Levelled(content, options1, slide_level) ==
            Prepared(content,
                     [k \in DOMAIN options1 \cup {"slide_level"} |->
                         IF k = "slide_level" THEN slide_level ELSE options1[k]],
                     slide_level)
        Themed(content, options1) ==
            Levelled(content, options1, ResolvedSlideLevel(options1, content))
        Read(raw) ==
            IF from_file /\ DecodeFails(raw)
            THEN Raised("UnicodeDecodeError", "'utf-8' codec can't decode byte 0xff", "",
                        <<>>, files)
            ELSE Themed(IF from_file THEN decode(raw) ELSE input_data,
                        WithTheme(options0))
    IN  IF from_file /\ ~is_file(files, input_data)
        THEN Raised("IsADirectoryError", "[Errno 21] Is a directory", "", <<>>, files)
        ELSE Read(IF from_file THEN files[PathStr(input_data)].data ELSE <<>>)

(***************************************************************************)
(* ConverterRegistry                                                       *)
(***************************************************************************)

\* the order of characters in str comparison, for letters
Ord(c) ==
    IF \E k \in 1..26 : UpperCase[k] = c THEN CHOOSE k \in 1..26 : UpperCase[k] = c
    ELSE IF \E k \in 1..26 : LowerCase[k] = c
         THEN 26 + (CHOOSE k \in 1..26 : LowerCase[k] = c)
         ELSE 0

\* a < b of two str
RECURSIVE StrLess(_, _)
StrLess(a, b) ==
    IF b = "" THEN FALSE
    ELSE IF a = "" THEN TRUE
    ELSE IF Char(a, 1) # Char(b, 1) THEN Ord(Char(a, 1)) < Ord(Char(b, 1))
    ELSE StrLess(SubSeq(a, 2, Len(a)), SubSeq(b, 2, Len(b)))

\* sorted(keys)
RECURSIVE sorted(_)
sorted(keys) ==
    IF keys = {} THEN <<>>
    ELSE LET least == CHOOSE a \in keys : \A b \in keys \ {a} : StrLess(a, b)
         IN  <<least>> \o sorted(keys \ {least})

\* ConverterRegistry.register as it would be if it kept the name as given
register_AsGiven(converters, format_name, converter_class) ==
    WithPath(converters, format_name, converter_class)

\* ConverterRegistry.register
register(converters, format_name, converter_class) ==
    WithPath(converters, lower(format_name), converter_class)

\* ConverterRegistry.get
get(converters, format_name) ==
    IF lower(format_name) \in DOMAIN converters THEN converters[lower(format_name)]
    ELSE None

\* ConverterRegistry.list_formats
list_formats(converters) == sorted(DOMAIN converters)

\* ConverterRegistry.has_format
has_format(converters, format_name) == lower(format_name) \in DOMAIN converters

\* the registry that importing mdconv.converters builds
BuiltinRegistry ==
    LET r0 == [k \in {} |-> ""]
        r1 == register(r0, "html", "HTMLConverter")
        r2 == register(r1, "pdf", "PDFConverter")
        r3 == register(r2, "docx", "DOCXConverter")
        r4 == register(r3, "latex", "LaTeXConverter")
        r5 == register(r4, "epub", "EPUBConverter")
    IN  register(r5, "pptx", "PPTXConverter")

(***************************************************************************)
(* Converter, the facade                                                   *)
(***************************************************************************)

\* converter_class(self.pandoc_wrapper).convert(input_data, output_file, **options)
\* env is what the world does during the call: [eng, render, tmp].  The call
\* binds input_data and output_file by position: an option of either name
\* is a second value for the parameter, and the call raises TypeError
\* before the converter runs.
ConverterClass_convert(converter_class, self_pandoc_path, input_data, output_file, options, files, env) ==
    CASE DOMAIN options \cap {"input_data", "output_file"} # {} ->
            Raised("TypeError", "convert() got multiple values for argument", "",
                   <<>>, files)
      [] converter_class = "HTMLConverter" ->
            HTMLConverter_convert(self_pandoc_path, input_data, output_file, options,
                                  files, env.eng)
      [] converter_class = "PDFConverter" ->
            PDFConverter_convert(self_pandoc_path, input_data, output_file, options,
                                 files, env.eng, env.render)
      [] converter_class = "DOCXConverter" ->
            DOCXConverter_convert(self_pandoc_path, input_data, output_file, options,
                                  files, env.eng)
      [] converter_class = "LaTeXConverter" ->
            LaTeXConverter_convert(self_pandoc_path, input_data, output_file, options,
                                   files, env.eng)
      [] converter_class = "EPUBConverter" ->
            EPUBConverter_convert(self_pandoc_path, input_data, output_file, options,
                                  files, env.eng)
      [] OTHER ->
            PPTXConverter_convert(self_pandoc_path, input_data, output_file, options,
                                  files, env.eng, env.tmp)

\* the "Prepare output" part shared by convert and convert_string
ConvertTo(converter_class, self_pandoc_path, input_data, output_file, options, files, env, trace0) ==
    LET constructed == Append(trace0, Event("construct", converter_class))
        \* validate_output_directory(output_path)
        checked(made) ==
            constructed
            \o <<Event("validate_output_directory", PathStr(output_file))>>
            \o (IF made # files THEN <<Event("mkdir", parent(output_file))>> ELSE <<>>)
        \* result is what the converter returned or raised; the facade
        \* returns None when a destination is given
        Deliver(result, prepared) ==
            IF result.raised # "" \/ ~TruthyStr(output_file)
            THEN [result EXCEPT !.trace = prepared \o result.trace]
            ELSE Returned(<<>>, TRUE, prepared \o result.trace, result.fs)
        Prepare(output_path, made) ==
            Deliver(ConverterClass_convert(converter_class, self_pandoc_path, input_data,
                                           output_path, options, made, env),
                    IF TruthyStr(output_file) THEN checked(made) ELSE constructed)
    IN  Prepare(IF TruthyStr(output_file) THEN PathStr(output_file) ELSE None,
                IF TruthyStr(output_file)
                THEN mkdir_parents(files, parent(output_file)) ELSE files)

\* Converter.convert as it would be if the input file were validated before
\* the format
Converter_convert_InputFirst(converters, self_pandoc_path, input_file, output_format, output_file, options, files, env) ==
    LET validated == <<Event("validate_file_exists", input_file)>>
    IN  IF ~exists(files, input_file)
        THEN Raised("FileNotFoundError", "File not found: " \o input_file, "",
                    validated, files)
        ELSE IF ~is_file(files, input_file)
             THEN Raised("ValueError", "Path is not a file: " \o input_file, "",
                         validated, files)
        ELSE IF ~has_format(converters, output_format)
             THEN InvalidFormatError(output_format, list_formats(converters), validated,
                                     files)
        ELSE ConvertTo(get(converters, output_format), self_pandoc_path,
                       PathStr(input_file), output_file, options, files, env, validated)

\* Converter.convert as it would be if the converter were constructed before
\* the input file is validated
Converter_convert_ConstructFirst(converters, self_pandoc_path, input_file, output_format, output_file, options, files, env) ==
    LET constructed == <<Event("construct", get(converters, output_format)),
                         Event("validate_file_exists", input_file)>>
    IN  IF ~has_format(converters, output_format)
        THEN InvalidFormatError(output_format, list_formats(converters), <<>>, files)
        ELSE IF ~exists(files, input_file)
             THEN Raised("FileNotFoundError", "File not found: " \o input_file, "",
                         constructed, files)
        ELSE IF ~is_file(files, input_file)
             THEN Raised("ValueError", "Path is not a file: " \o input_file, "",
                         constructed, files)
        ELSE ConvertTo(get(converters, output_format), self_pandoc_path,
                       PathStr(input_file), output_file, options, files, env,
                       <<Event("validate_file_exists", input_file)>>)

\* Converter.convert
Converter_convert(converters, self_pandoc_path, input_file, output_format, output_file, options, files, env) ==
    LET validated == <<Event("validate_file_exists", input_file)>>
    IN  IF ~has_format(converters, output_format)
        THEN InvalidFormatError(output_format, list_formats(converters), <<>>, files)
        ELSE IF ~exists(files, input_file)
             THEN Raised("FileNotFoundError", "File not found: " \o input_file, "",
                         validated, files)
        ELSE IF ~is_file(files, input_file)
             THEN Raised("ValueError", "Path is not a file: " \o input_file, "",
                         validated, files)
        ELSE ConvertTo(get(converters, output_format), self_pandoc_path,
                       PathStr(input_file), output_file, options, files, env, validated)

\* Converter.convert_string
Converter_convert_string(converters, self_pandoc_path, markdown_content, output_format, output_file, options, files, env) ==
    IF ~has_format(converters, output_format)
    THEN InvalidFormatError(output_format, list_formats(converters), <<>>, files)
    ELSE ConvertTo(get(converters, output_format), self_pandoc_path, markdown_content,
                   output_file, options, files, env, <<>>)

(***************************************************************************)
(* The inputs the model draws                                              *)
(***************************************************************************)

\* a path of n characters whose components are short
LongPath(n) ==
    IF n % 2 = 1 THEN Repeat("d/", (n - 1) \div 2) \o "f"
    ELSE Repeat("d/", (n - 2) \div 2) \o "ff"

NotesText == "# Title\n\nBody text."

DeckText == "# Deck\n## One\ntext\n## Two\nmore"

\* the filesystem at the start: the engine on the PATH, a Markdown file, a
\* directory, and files whose paths are one shorter than and as long as the limit
InitialFiles ==
    LET paths == {".", "/tmp", WhichPandoc, "notes.md", "docs",
                  LongPath(PathLengthLimit - 1), LongPath(PathLengthLimit)}
    IN  [p \in paths |->
            IF p \in {".", "/tmp", "docs"} THEN Dir
            ELSE IF p = WhichPandoc THEN File(<<>>)
            ELSE IF p = "notes.md" THEN File(encode(DeckText))
            ELSE File(encode(NotesText))]

\* names NamedTemporaryFile can pick
TempNames == <<"/tmp/tmp1.md">>

\* the name NamedTemporaryFile picks: one that names nothing yet
FreshTemp(files) ==
    LET free == {i \in 1..Len(TempNames) : TempNames[i] \notin DOMAIN files}
    IN  IF free = {} THEN None
        ELSE TempNames[CHOOSE a \in free : \A b \in free : a <= b]

RequestFormats == DOMAIN BuiltinRegistry \cup {"rtf", "HTML"}

InputFiles == {"notes.md", "missing.md", "docs"}

MarkdownContents == {NotesText, "notes.md", "docs"}

OutputFiles == {None, "build/out.bin"}

\* the destinations given to PandocWrapper.convert
WrapperOutputFiles == {None, "", "out.bin"}

OptionSets ==
    {EmptyDict,
     [k \in {"pdf_engine", "toc_depth"} |->
         IF k = "pdf_engine" THEN PyStr("xelatex") ELSE PyInt(2)],
     [k \in {"theme", "font_size", "slide_level"} |->
         IF k = "theme" THEN PyStr("modern") ELSE PyInt(2)],
     [k \in {"theme", "pdf_engine", "columns"} |->
         IF k = "theme" THEN PyStr("Modern")
         ELSE IF k = "pdf_engine" THEN PyStr("xhtml2pdf") ELSE PyInt(80)],
     [k \in {"input_data"} |-> PyStr("notes.md")]}

Entry(key, value) == [key |-> key, value |-> value]

\* options mappings given to PandocWrapper.convert
EngineOptionSets ==
    {<<>>,
     <<Entry("standalone", True), Entry("toc", False)>>,
     <<Entry("toc", False), Entry("toc-depth", PyInt(3)), Entry("mathjax", True)>>,
     <<Entry("css", PyList(<<PyStr("a.css"), PyStr("b.css")>>)), Entry("template", PyStr("t.html"))>>,
     <<Entry("css", PyList(<<>>)), Entry("variable", NoneValue), Entry("columns", PyInt(0))>>}

WrapperInputs ==
    {"notes.md", "missing.md", NotesText, "", LongPath(PathLengthLimit - 1),
     LongPath(PathLengthLimit)}

WrapperFormats == {"html", "docx", "epub", "pptx", "DOCX"}

\* what the engine process does when it runs
Engine(rc, stdout, stderr) == [rc |-> rc, stdout |-> stdout, stderr |-> stderr]

EngineOutcomes ==
    {Engine(0, encode("<p>x</p>"), <<>>),
     Engine(0, <<>>, encode("[WARNING] empty")),
     Engine(1, <<>>, encode("pandoc: bad input")),
     Engine(1, encode("<p>"), <<>>),
     Engine(2, <<>>, encode("t.md: File name too long")),
     Engine(1, <<>>, <<"e", InvalidByte>>)}

\* the engine outcomes met by the calls made through the facade
FacadeEngineOutcomes ==
    {Engine(0, encode("<p>x</p>"), <<>>),
     Engine(1, <<>>, encode("pandoc: bad input")),
     Engine(1, <<>>, <<"e", InvalidByte>>)}

\* what the engine can also print when it is asked for HTML
HtmlEngineOutcomes ==
    {Engine(0, encode("<html><head><style>p{}</style></head><body>x</body></html>"), <<>>),
     Engine(0, encode("<BODY class=a>x</BODY>"), <<>>),
     Engine(0, <<InvalidByte>>, <<>>)}

\* what the in-process renderer does
Render(installed, err, pdf) == [installed |-> installed, err |-> err, pdf |-> pdf]

RenderOutcomes ==
    {Render(TRUE, 0, encode("%PDF")), Render(TRUE, 1, <<>>), Render(FALSE, 0, <<>>)}

\* the engine paths a Converter is constructed with
PandocPathArguments == {None, "", "/opt/pandoc"}

(***************************************************************************)
(* The state machine: callers call, handlers run, the world changes        *)
(***************************************************************************)

Call(op, input, input_format, output_format, output_file, options, engine_options) ==
    [op |-> op, input |-> input, input_format |-> input_format,
     output_format |-> output_format, output_file |-> output_file,
     options |-> options, engine_options |-> engine_options]

NoCall == Call("", "", "", "", None, EmptyDict, <<>>)

\* the world of a call that meets none: an engine that prints nothing, the
\* renderer installed, no temporary file
NoWorld == [eng |-> Engine(0, <<>>, <<>>), render |-> Render(TRUE, 0, <<>>),
            tmp |-> [name |-> None, full |-> FALSE]]

\* last when no call has finished since the caller took the result
NoResult == [call |-> NoCall, before |-> <<>>, self |-> None,
             eng |-> NoWorld.eng, world |-> NoWorld, changed |-> FALSE,
             out |-> Returned(<<>>, FALSE, <<>>, <<>>)]

\* the finished call: its arguments, the filesystem and the wrapper it ran
\* with, the world it met (eng is what the engine did), whether it changed
\* the filesystem, its outcome
Finished(out, env) ==
    [call |-> call, before |-> fs, self |-> pandoc_path, eng |-> env.eng,
     world |-> env, changed |-> out.fs # fs, out |-> [out EXCEPT !.fs = <<>>]]

Calls ==
    {Call("Converter", p, "", "", None, EmptyDict, <<>>) : p \in PandocPathArguments}
    \cup {Call("convert", i, "markdown", f, o, opts, <<>>) :
            i \in InputFiles, f \in RequestFormats, o \in OutputFiles, opts \in OptionSets}
    \cup {Call("convert_string", i, "markdown", f, o, opts, <<>>) :
            i \in MarkdownContents, f \in RequestFormats, o \in OutputFiles,
            opts \in OptionSets}
    \cup {Call("PandocWrapper.convert", i, "markdown", f, o, EmptyDict, <<>>) :
            i \in WrapperInputs, f \in WrapperFormats, o \in WrapperOutputFiles}
    \cup {Call("PandocWrapper.convert", NotesText, "markdown", f, o, EmptyDict, opts) :
            f \in {"html", "docx"}, o \in WrapperOutputFiles, opts \in EngineOptionSets}

\* the parts of the world a call of this format can meet; a pptx call
\* needs a name for its temporary file
Worlds(converter_class, files) ==
    {[eng |-> e, render |-> r, tmp |-> [name |-> FreshTemp(files), full |-> full]] :
        e \in IF converter_class = "PDFConverter"
               THEN FacadeEngineOutcomes \cup HtmlEngineOutcomes
               ELSE FacadeEngineOutcomes,
        r \in IF converter_class = "PDFConverter" THEN RenderOutcomes
              ELSE {Render(TRUE, 0, <<>>)},
        full \in IF converter_class # "PPTXConverter" THEN {FALSE}
                 ELSE IF FreshTemp(files) = None THEN {}
                 ELSE BOOLEAN}

Init ==
    /\ registry = BuiltinRegistry
    /\ fs = InitialFiles
    /\ pandoc_path = None
    /\ call = NoCall
    /\ last = NoResult
    /\ md_in = ""
    /\ md_opt = 0
    /\ md_level = 0
    /\ md_out = <<>>
    /\ md_style = EmptyDict
    /\ reg_log = <<>>
    /\ api = NoServer
    /\ jobs = <<>>
    /\ session = NoSession

\* a caller makes a call; a Converter must exist for all but its construction
Invoke ==
    /\ call = NoCall
    /\ last = NoResult
    /\ \E c \in Calls :
        /\ c.op # "Converter" => pandoc_path # None
        /\ call' = c
    /\ UNCHANGED <<registry, fs, pandoc_path, last, md_in, md_opt, md_level, md_out, md_style, reg_log, api, jobs, session>>

\* the caller takes the result of the finished call
Return ==
    /\ last # NoResult
    /\ last' = NoResult
    /\ UNCHANGED <<registry, fs, pandoc_path, call, md_in, md_opt, md_level, md_out, md_style, reg_log, api, jobs, session>>

\* Converter.__init__, that is PandocWrapper.__init__
Converter_init ==
    /\ call.op = "Converter"
    /\ LET found == PandocWrapper_init(call.input, fs)
       IN  IF found = None
           THEN /\ last' = Finished(PandocNotFoundError(<<>>, fs), NoWorld)
                /\ UNCHANGED pandoc_path
           ELSE /\ last' = Finished(Returned(<<>>, TRUE, <<>>, fs), NoWorld)
                /\ pandoc_path' = found
    /\ call' = NoCall
    /\ UNCHANGED <<registry, fs, md_in, md_opt, md_level, md_out, md_style, reg_log, api, jobs, session>>

Finish(out, env) ==
    /\ last' = Finished(out, env)
    /\ fs' = out.fs
    /\ call' = NoCall
    /\ UNCHANGED <<registry, pandoc_path, md_in, md_opt, md_level, md_out, md_style, reg_log, api, jobs, session>>

ConvertCall ==
    /\ call.op = "convert"
    /\ \E env \in Worlds(get(registry, call.output_format), fs) :
        /\ Finish(Converter_convert(registry, pandoc_path, call.input,
                                    call.output_format, call.output_file,
                                    call.options, fs, env), env)

ConvertStringCall ==
    /\ call.op = "convert_string"
    /\ \E env \in Worlds(get(registry, call.output_format), fs) :
        /\ Finish(Converter_convert_string(registry, pandoc_path, call.input,
                                           call.output_format, call.output_file,
                                           call.options, fs, env), env)

WrapperConvertCall ==
    /\ call.op = "PandocWrapper.convert"
    /\ \E eng \in EngineOutcomes :
        Finish(PandocWrapper_convert(pandoc_path, call.input, call.input_format,
                                     call.output_format, call.output_file,
                                     call.engine_options, fs, eng),
               [NoWorld EXCEPT !.eng = eng])

\* the engine is installed on the PATH, or removed from it
EngineInstalled ==
    /\ WhichPandoc \notin DOMAIN fs
    /\ fs' = WithPath(fs, WhichPandoc, File(<<>>))
    /\ UNCHANGED <<registry, pandoc_path, call, last, md_in, md_opt, md_level, md_out, md_style, reg_log, api, jobs, session>>

EngineRemoved ==
    /\ WhichPandoc \in DOMAIN fs
    /\ fs' = WithoutPath(fs, WhichPandoc)
    /\ UNCHANGED <<registry, pandoc_path, call, last, md_in, md_opt, md_level, md_out, md_style, reg_log, api, jobs, session>>

Next ==
    \/ Invoke
    \/ Return
    \/ Converter_init
    \/ ConvertCall
    \/ ConvertStringCall
    \/ WrapperConvertCall
    \/ EngineInstalled
    \/ EngineRemoved

Spec == Init /\ [][Next]_vars

(***************************************************************************)
(* The slide functions on bounded Markdown texts: one text, its slide      *)
(* level resolved, the normalizer run on it and again on its own output,   *)
(* and the text converted to pptx through the facade                       *)
(***************************************************************************)

\* the longest text drawn, in lines
MaxLines == 3

\* how many times the normalizer is run on its own output
MaxPasses == 2

LinePool == {"# A", "## B", "#\tC", "text", "", "---"}

\* the texts of 1 to n lines of LinePool
RECURSIVE Documents(_)
Documents(n) ==
    IF n <= 1 THEN LinePool
    ELSE LET shorter == Documents(n - 1)
         IN  shorter \cup {d \o "\n" \o line : d \in shorter, line \in LinePool}

\* texts in which a run of two and of three blank lines separates two lines
\* of text
BlankRunDocuments == {"text\n\n\ntext", "text\n\n\n\ntext"}

\* the options of a pptx conversion with slide_level=opt, without it when opt = 0
SlideOptions(opt) ==
    IF opt = 0 THEN EmptyDict ELSE [k \in {"slide_level"} |-> PyInt(opt)]

InitSlides ==
    /\ registry = BuiltinRegistry
    /\ fs = InitialFiles
    /\ pandoc_path = WhichPandoc
    /\ call = NoCall
    /\ last = NoResult
    /\ md_in \in Documents(MaxLines) \cup BlankRunDocuments
    /\ md_opt \in 0..2
    /\ md_level = 0
    /\ md_out = <<>>
    /\ md_style = EmptyDict
    /\ reg_log = <<>>
    /\ api = NoServer
    /\ jobs = <<>>
    /\ session = NoSession

\* "Auto-detect slide level if not explicitly set"
ResolveSlideLevel ==
    /\ md_level = 0
    /\ md_level' = ResolvedSlideLevel(SlideOptions(md_opt), md_in).n
    /\ UNCHANGED <<registry, fs, pandoc_path, call, last, md_in, md_opt, md_out, md_style, reg_log, api, jobs, session>>

\* _normalize_slide_structure on the text, then on its own output
NormalizePass ==
    /\ md_level # 0
    /\ Len(md_out) < MaxPasses
    /\ md_out' = Append(md_out,
                        _normalize_slide_structure(
                            IF md_out = <<>> THEN md_in ELSE md_out[Len(md_out)],
                            md_level))
    /\ UNCHANGED <<registry, fs, pandoc_path, call, last, md_in, md_opt, md_level, md_style, reg_log, api, jobs, session>>

\* the text is given to convert_string for pptx
InvokeSlides ==
    /\ Len(md_out) = MaxPasses
    /\ call = NoCall
    /\ last = NoResult
    /\ call' = Call("convert_string", md_in, "markdown", "pptx", None,
                    SlideOptions(md_opt), <<>>)
    /\ UNCHANGED <<registry, fs, pandoc_path, last, md_in, md_opt, md_level, md_out, md_style, reg_log, api, jobs, session>>

NextSlides ==
    \/ ResolveSlideLevel
    \/ NormalizePass
    \/ InvokeSlides
    \/ ConvertStringCall

SpecSlides == InitSlides /\ [][NextSlides]_vars

(***************************************************************************)
(* The metadata injector on bounded documents: one document, with or       *)
(* without front matter, and one options mapping                           *)
(***************************************************************************)

\* the longest document drawn, in lines
MaxMetadataLines == 4

MetadataLinePool == {"---", " ---", "title: T", "theme-color: red", "", "body"}

\* the documents of 1 to n lines of MetadataLinePool
RECURSIVE MetadataDocuments(_)
MetadataDocuments(n) ==
    IF n <= 1 THEN MetadataLinePool
    ELSE LET shorter == MetadataDocuments(n - 1)
         IN  shorter \cup {d \o "\n" \o line : d \in shorter, line \in MetadataLinePool}

\* the options given: none, one styling key that the pool's front matter
\* also defines, two styling keys, and keys that are not styling keys
StyleOptionSets ==
    {EmptyDict,
     [k \in {"theme_color"} |-> PyStr("blue")],
     [k \in {"font_family", "font_size"} |->
         IF k = "font_family" THEN PyStr("Arial") ELSE PyInt(2)],
     [k \in {"toc", "slide_level"} |-> IF k = "toc" THEN True ELSE PyInt(1)]}

InitMetadata ==
    /\ registry = BuiltinRegistry
    /\ fs = InitialFiles
    /\ pandoc_path = WhichPandoc
    /\ call = NoCall
    /\ last = NoResult
    /\ md_in \in MetadataDocuments(MaxMetadataLines)
    /\ md_opt = 0
    /\ md_level = 0
    /\ md_out = <<>>
    /\ md_style \in StyleOptionSets
    /\ reg_log = <<>>
    /\ api = NoServer
    /\ jobs = <<>>
    /\ session = NoSession

\* _inject_styling_metadata(md_in, md_style, is_file=False)
InjectMetadata ==
    /\ md_out = <<>>
    /\ md_out' = <<_inject_styling_metadata(md_in, md_style)>>
    /\ UNCHANGED <<registry, fs, pandoc_path, call, last, md_in, md_opt, md_level, md_style, reg_log, api, jobs, session>>

NextMetadata == InjectMetadata

SpecMetadata == InitMetadata /\ [][NextMetadata]_vars

(***************************************************************************)
(* The registry under register calls: a registry as constructed, then      *)
(* names registered in any order and in any case                           *)
(***************************************************************************)

\* how many register calls are made
MaxRegistrations == 3

RegisteredNames == {"html", "HTML", "Html", "pdf"}

RegisteredClasses == {"HTMLConverter", "PDFConverter", "DOCXConverter"}

\* ConverterRegistry.__init__: self._converters = {}
InitRegistry ==
    /\ registry = [k \in {} |-> ""]
    /\ fs = InitialFiles
    /\ pandoc_path = WhichPandoc
    /\ call = NoCall
    /\ last = NoResult
    /\ md_in = ""
    /\ md_opt = 0
    /\ md_level = 0
    /\ md_out = <<>>
    /\ md_style = EmptyDict
    /\ reg_log = <<>>
    /\ api = NoServer
    /\ jobs = <<>>
    /\ session = NoSession

\* registry.register(format_name, converter_class)
RegisterCall ==
    /\ Len(reg_log) < MaxRegistrations
    /\ \E format_name \in RegisteredNames, converter_class \in RegisteredClasses :
        /\ registry' = register(registry, format_name, converter_class)
        /\ reg_log' = Append(reg_log, [format_name |-> format_name,
                                       converter_class |-> converter_class])
    /\ UNCHANGED <<fs, pandoc_path, call, last, md_in, md_opt, md_level, md_out, md_style, api, jobs, session>>

NextRegistry == RegisterCall

SpecRegistry == InitRegistry /\ [][NextRegistry]_vars

(***************************************************************************)
(* The API server: its module globals, the key middleware, the lazy        *)
(* converter cache and the handlers that use it.  A request is handled     *)
(* whole: the handlers are coroutines on one event loop and get_converter  *)
(* holds no await.                                                         *)
(***************************************************************************)

\* the constructions of a Converter the server is followed through
MaxConstructions == 3

\* the X-API-Key headers of the requests (None: no such header)
RequestKeys == {None, "secret", "wrong"}

RequestPaths == {"/", "/health", "/formats", "/convert", "/convert/json", "/metrics"}

\* the parsed bodies; unparsed tells a body that is neither JSON nor a form
Body(unparsed, content, output_format) ==
    [unparsed |-> unparsed, content |-> content, output_format |-> output_format]

RequestBodies ==
    {Body(TRUE, None, None), Body(FALSE, None, "html"), Body(FALSE, " ", "html"),
     Body(FALSE, NotesText, None), Body(FALSE, NotesText, "rtf"),
     Body(FALSE, NotesText, "html")}

\* get_api_key: the key, or None, and the cache it leaves
get_api_key(g) ==
    IF TruthyStr(g._api_key_cache) THEN [key |-> g._api_key_cache, g |-> g]
    ELSE IF TruthyStr(g.API_KEY)
         THEN [key |-> g.API_KEY, g |-> [g EXCEPT !._api_key_cache = g.API_KEY]]
         ELSE [key |-> None, g |-> g]

\* verify_api_key(request)
verify_api_key(g, request) ==
    LET api_key == get_api_key(g).key
    IN  IF ~TruthyStr(api_key) THEN TRUE
        ELSE IF ~TruthyStr(request.key) THEN FALSE
        ELSE request.key = api_key

PUBLIC_ENDPOINTS == {"/", "/health", "/docs", "/openapi.json", "/redoc", "/convert"}

\* api_key_middleware: TRUE when it hands the request to call_next
api_key_middleware(g, request) ==
    IF request.path \in PUBLIC_ENDPOINTS THEN TRUE ELSE verify_api_key(g, request)

\* the globals after the middleware ran: get_api_key fills its cache
AfterMiddleware(g, request) ==
    IF request.path \in PUBLIC_ENDPOINTS THEN g ELSE get_api_key(g).g

\* a get_converter call: the globals it leaves, the error it raised, the
\* Converter it returned and whether it called Converter(); an object is
\* named by the number of the construction that made it, and 0 is None
Got(g, raised, value, constructed) ==
    [called |-> TRUE, g |-> g, raised |-> raised, value |-> value,
     constructed |-> constructed]

\* get_converter as it would be if a cached error did not stop it from
\* constructing again
get_converter_Retrying(g, files) ==
    IF g._converter_instance = 0
    THEN LET n == g.constructions + 1
             found == PandocWrapper_init(None, files)
         IN  IF found = None
             THEN Got([g EXCEPT !._converter_error = n, !.constructions = n], n, 0, TRUE)
             ELSE Got([g EXCEPT !._converter_instance = n, !.constructions = n,
                                !.pandoc_path = found], 0, n, TRUE)
    ELSE Got(g, 0, g._converter_instance, FALSE)

\* get_converter
get_converter(g, files) ==
    IF g._converter_instance = 0 /\ g._converter_error = 0
    THEN LET n == g.constructions + 1
             found == PandocWrapper_init(None, files)
         IN  IF found = None
             THEN Got([g EXCEPT !._converter_error = n, !.constructions = n], n, 0, TRUE)
             ELSE Got([g EXCEPT !._converter_instance = n, !.constructions = n,
                                !.pandoc_path = found], 0, n, TRUE)
    ELSE IF g._converter_error # 0
    THEN Got(g, g._converter_error, 0, FALSE)
    ELSE Got(g, 0, g._converter_instance, FALSE)

\* what a handler did: the status it answered with, the get_converter call
\* it made (NoGet: none) and whether it ran convert_string
NoGet == [called |-> FALSE, g |-> NoServer, raised |-> 0, value |-> 0,
          constructed |-> FALSE]

Reply(status, got, converted) == [status |-> status, got |-> got, converted |-> converted]

\* get_converter().convert_string(...) and the except clauses around it
Converted(got, converters, body, files, env) ==
    IF got.raised # 0 THEN Reply(500, got, FALSE)
    ELSE LET out == Converter_convert_string(converters, got.g.pandoc_path, body.content,
                                             body.output_format, None, EmptyDict,
                                             files, env)
         IN  IF out.raised = "InvalidFormatError" THEN Reply(400, got, TRUE)
             ELSE IF out.raised # "" \/ out.none THEN Reply(500, got, TRUE)
             ELSE Reply(200, got, TRUE)

\* the /convert handler
convert(g, converters, body, files, env) ==
    IF body.unparsed THEN Reply(400, NoGet, FALSE)
    ELSE IF ~TruthyStr(body.content) THEN Reply(400, NoGet, FALSE)
    ELSE IF ~TruthyStr(body.output_format) THEN Reply(400, NoGet, FALSE)
    ELSE IF strip(body.content) = "" THEN Reply(400, NoGet, FALSE)
    ELSE IF body.output_format \notin DOMAIN BuiltinRegistry THEN Reply(400, NoGet, FALSE)
    ELSE Converted(get_converter(g, files), converters, body, files, env)

\* the /convert/json handler behind the ConvertRequest validation
convert_json(g, converters, body, files, env) ==
    IF \/ body.unparsed
       \/ ~TruthyStr(body.content)
       \/ strip(body.content) = ""
       \/ body.output_format \notin DOMAIN BuiltinRegistry
    THEN Reply(422, NoGet, FALSE)
    ELSE Converted(get_converter(g, files), converters, body, files, env)

\* the handlers that only read the converter: /formats and /health
Reading(got) == IF got.raised # 0 THEN Reply(500, got, FALSE) ELSE Reply(200, got, FALSE)

\* the application behind the middleware: the rate limiter, then the handler
Route(g, converters, request, limited, files, env) ==
    IF request.path = "/" THEN Reply(200, NoGet, FALSE)
    ELSE IF request.path = "/health" THEN Reading(get_converter(g, files))
    ELSE IF request.path \notin {"/formats", "/convert", "/convert/json"}
    THEN Reply(404, NoGet, FALSE)
    ELSE IF limited THEN Reply(429, NoGet, FALSE)
    ELSE IF request.path = "/formats" THEN Reading(get_converter(g, files))
    ELSE IF request.path = "/convert"
    THEN convert(g, converters, request.body, files, env)
    ELSE convert_json(g, converters, request.body, files, env)

NoRequest == [path |-> "", key |-> None, body |-> Body(TRUE, None, None)]

\* the server after a request: the globals the handler left, the request
\* and the reply to it
Responded(g, request, reply) ==
    [(IF reply.got.called THEN reply.got.g ELSE g)
        EXCEPT !.request = request,
               !.reply = [reply EXCEPT !.got.g = NoServer]]

\* the module globals when the server is imported, with the key of the
\* environment
InitApi ==
    /\ registry = BuiltinRegistry
    /\ fs \in {InitialFiles, WithoutPath(InitialFiles, WhichPandoc)}
    /\ pandoc_path = None
    /\ call = NoCall
    /\ last = NoResult
    /\ md_in = ""
    /\ md_opt = 0
    /\ md_level = 0
    /\ md_out = <<>>
    /\ md_style = EmptyDict
    /\ reg_log = <<>>
    /\ \E key \in {"", "secret"} :
        api = [running |-> TRUE, API_KEY |-> key, _api_key_cache |-> None,
               _converter_instance |-> 0, _converter_error |-> 0,
               pandoc_path |-> None, constructions |-> 0,
               request |-> NoRequest, reply |-> Reply(0, NoGet, FALSE)]
    /\ jobs = <<>>
    /\ session = NoSession

\* what the engine does for the server's conversions
ApiEngineOutcomes ==
    {Engine(0, encode("<p>x</p>"), <<>>), Engine(1, <<>>, encode("pandoc: bad input"))}

\* one request, from the middleware to the response
HandleRequest ==
    /\ api.constructions < MaxConstructions
    /\ \E path \in RequestPaths, key \in RequestKeys, body \in RequestBodies,
          limited \in BOOLEAN, eng \in ApiEngineOutcomes :
        LET request == [path |-> path, key |-> key, body |-> body]
            Handled(g) ==
                Responded(g, request,
                          IF api_key_middleware(api, request)
                          THEN Route(g, registry, request, limited, fs,
                                     [NoWorld EXCEPT !.eng = eng])
                          ELSE Reply(401, NoGet, FALSE))
        IN  api' = Handled(AfterMiddleware(api, request))
    /\ UNCHANGED <<registry, fs, pandoc_path, call, last, md_in, md_opt, md_level, md_out, md_style, reg_log, jobs, session>>

NextApi ==
    \/ HandleRequest
    \/ EngineInstalled
    \/ EngineRemoved

SpecApi == InitApi /\ [][NextApi]_vars

(***************************************************************************)
(* A caller's process: one options mapping, held by the caller and passed  *)
(* to successive conversions, and the module's theme presets.  The         *)
(* mappings are objects: what a conversion writes into the mapping it      *)
(* holds is seen by whoever else holds that same object.                   *)
(***************************************************************************)

MaxConversions == 2

\* the mappings the caller builds
SessionOptionSets ==
    {EmptyDict,
     [k \in {"theme"} |-> PyStr("dark")],
     [k \in {"theme", "font_size"} |-> IF k = "theme" THEN PyStr("modern") ELSE PyInt(2)],
     [k \in {"toc"} |-> True]}

SessionContents == {DeckText, "## B\n## B\ntext", "text"}

\* "Handle theme presets": theme_options is a copy of the preset, and the
\* loop writes into options only; the presets and the options it leaves
HandleTheme(presets, options) ==
    IF /\ "theme" \in DOMAIN options
       /\ options["theme"].t = "str"
       /\ options["theme"].s \in DOMAIN presets
    THEN LET theme_options == presets[options["theme"].s]
         IN  [presets |-> presets,
              options |-> [k \in DOMAIN options \cup DOMAIN theme_options |->
                              IF k \in DOMAIN options THEN options[k]
                              ELSE theme_options[k]]]
    ELSE [presets |-> presets, options |-> options]

\* the options dict of PPTXConverter.convert when it returns: the merged
\* theme, and options["slide_level"] = slide_level
CalleeOptions(themed, content) ==
    [k \in DOMAIN themed \cup {"slide_level"} |->
        IF k = "slide_level" THEN ResolvedSlideLevel(themed, content) ELSE themed[k]]

\* the caller's mapping after a call as it would be if the callee's options
\* were the caller's object
CallerMapping_Shared(mapping, callee) == callee

\* the caller's mapping after convert_string(..., **mapping): ** builds a new
\* dict for the callee, whose writes stay in it
CallerMapping(mapping, callee) == mapping

\* the engine commands run and the texts written for the engine, in order
Produced(out) ==
    LET made == SelectSeq(out.trace, LAMBDA e : e.ev \in {"subprocess.run", "write"})
    IN  [i \in 1..Len(made) |-> [cmd |-> made[i].cmd, stdin |-> made[i].stdin]]

\* the world of the caller's conversions: the engine succeeds, the temporary
\* file is written
SessionWorld(files) ==
    [eng |-> Engine(0, encode("<p>x</p>"), <<>>), render |-> Render(TRUE, 0, <<>>),
     tmp |-> [name |-> FreshTemp(files), full |-> FALSE]]

InitSession ==
    /\ registry = BuiltinRegistry
    /\ fs = InitialFiles
    /\ pandoc_path = WhichPandoc
    /\ call = NoCall
    /\ last = NoResult
    /\ md_in = ""
    /\ md_opt = 0
    /\ md_level = 0
    /\ md_out = <<>>
    /\ md_style = EmptyDict
    /\ reg_log = <<>>
    /\ api = NoServer
    /\ jobs = <<>>
    /\ \E built \in SessionOptionSets :
        session = [running |-> TRUE, PPTX_THEMES |-> PPTX_THEMES, built |-> built,
                   options |-> built, log |-> <<>>]

\* the caller builds another mapping for its next conversions
CallerBuilds ==
    /\ Len(session.log) < MaxConversions
    /\ \E built \in SessionOptionSets \ {session.built} :
        session' = [session EXCEPT !.built = built, !.options = built]
    /\ UNCHANGED <<registry, fs, pandoc_path, call, last, md_in, md_opt, md_level, md_out, md_style, reg_log, api, jobs>>

\* Converter.convert_string(content, output_format, **session.options)
SessionConvert ==
    /\ Len(session.log) < MaxConversions
    /\ \E content \in SessionContents, output_format \in {"pptx", "html"} :
        LET Done(handled, out) ==
                /\ session' =
                     [session EXCEPT
                        !.PPTX_THEMES = handled.presets,
                        !.options = CallerMapping(
                                        session.options,
                                        IF output_format = "pptx"
                                        THEN CalleeOptions(handled.options, content)
                                        ELSE session.options),
                        !.log = Append(session.log,
                                       [content |-> content,
                                        output_format |-> output_format,
                                        options |-> session.built,
                                        produced |-> Produced(out)])]
                /\ fs' = out.fs
            Run(handled) ==
                Done(handled,
                     Converter_convert_string(registry, pandoc_path, content,
                                              output_format, None, handled.options,
                                              fs, SessionWorld(fs)))
        IN  Run(IF output_format = "pptx"
                THEN HandleTheme(session.PPTX_THEMES, session.options)
                ELSE [presets |-> session.PPTX_THEMES, options |-> session.options])
    /\ UNCHANGED <<registry, pandoc_path, call, last, md_in, md_opt, md_level, md_out, md_style, reg_log, api, jobs>>

NextSession ==
    \/ CallerBuilds
    \/ SessionConvert

SpecSession == InitSession /\ [][NextSession]_vars

(***************************************************************************)
(* Concurrent pptx conversions: each is a thread (or a process) that runs  *)
(* PPTXConverter.convert from the creation of its temporary file to the    *)
(* unlink of it, one step at a time, on one filesystem.                    *)
(***************************************************************************)

MaxJobs == 2

\* the names NamedTemporaryFile can pick
JobTempNames == {"/tmp/tmpa.md", "/tmp/tmpb.md", "/tmp/tmpc.md"}

\* the texts given to the conversions, one each
JobTexts == <<"# A\ntext", "# B\n# B", "## C", "text">>

\* the names NamedTemporaryFile would pick from if it took a name whether or
\* not a file of that name exists
FreshNames_Any(files) == JobTempNames

\* NamedTemporaryFile(delete=False) creates its file exclusively: the name
\* is one that no existing file has
FreshNames(files) == JobTempNames \ DOMAIN files

Job(pc, text, tmp_file_path, read) ==
    [pc |-> pc, text |-> text, tmp_file_path |-> tmp_file_path, read |-> read]

\* input_with_metadata of a conversion without styling options
input_with_metadata(text) ==
    _inject_styling_metadata(_normalize_slide_structure(text, _detect_slide_level(text)),
                             EmptyDict)

InitJobs ==
    /\ registry = BuiltinRegistry
    /\ fs = InitialFiles
    /\ pandoc_path = WhichPandoc
    /\ call = NoCall
    /\ last = NoResult
    /\ md_in = ""
    /\ md_opt = 0
    /\ md_level = 0
    /\ md_out = <<>>
    /\ md_style = EmptyDict
    /\ reg_log = <<>>
    /\ api = NoServer
    /\ jobs = <<>>
    /\ session = NoSession

\* a conversion is called and reaches the with statement
JobStarts ==
    /\ Len(jobs) < MaxJobs
    /\ jobs' = Append(jobs, Job("called", JobTexts[Len(jobs) + 1], None, <<>>))
    /\ UNCHANGED <<registry, fs, pandoc_path, call, last, md_in, md_opt, md_level, md_out, md_style, reg_log, api, session>>

\* tempfile.NamedTemporaryFile(mode='w', suffix='.md', delete=False)
JobCreatesFile ==
    \E i \in 1..Len(jobs), name \in FreshNames(fs) :
        /\ jobs[i].pc = "called"
        /\ fs' = WithPath(fs, name, File(<<>>))
        /\ jobs' = [jobs EXCEPT ![i] = Job("created", jobs[i].text, name, <<>>)]
        /\ UNCHANGED <<registry, pandoc_path, call, last, md_in, md_opt, md_level, md_out, md_style, reg_log, api, session>>

\* tmp_file.write(input_with_metadata) and the end of the with block; a
\* write that fails leaves convert before the try, the file in place
JobWritesFile ==
    \E i \in 1..Len(jobs), full \in BOOLEAN :
        /\ jobs[i].pc = "created"
        /\ IF full
           THEN /\ jobs' = [jobs EXCEPT ![i].pc = "raised"]
                /\ UNCHANGED fs
           ELSE /\ jobs' = [jobs EXCEPT ![i].pc = "written"]
                /\ fs' = WithPath(fs, jobs[i].tmp_file_path,
                                  File(encode(input_with_metadata(jobs[i].text))))
        /\ UNCHANGED <<registry, pandoc_path, call, last, md_in, md_opt, md_level, md_out, md_style, reg_log, api, session>>

\* self.pandoc_wrapper.convert(input_data=tmp_file_path, ...): the engine
\* reads the file of that name, if there is one
JobRunsEngine ==
    \E i \in 1..Len(jobs) :
        /\ jobs[i].pc = "written"
        /\ jobs' = [jobs EXCEPT ![i].pc = "ran",
                                ![i].read = IF is_file(fs, jobs[i].tmp_file_path)
                                            THEN fs[jobs[i].tmp_file_path].data
                                            ELSE <<InvalidByte>>]
        /\ UNCHANGED <<registry, fs, pandoc_path, call, last, md_in, md_opt, md_level, md_out, md_style, reg_log, api, session>>

\* finally: Path(tmp_file_path).unlink(), an OSError ignored
JobUnlinksFile ==
    \E i \in 1..Len(jobs) :
        /\ jobs[i].pc = "ran"
        /\ jobs' = [jobs EXCEPT ![i].pc = "returned"]
        /\ fs' = IF exists(fs, jobs[i].tmp_file_path)
                 THEN WithoutPath(fs, jobs[i].tmp_file_path) ELSE fs
        /\ UNCHANGED <<registry, pandoc_path, call, last, md_in, md_opt, md_level, md_out, md_style, reg_log, api, session>>

NextJobs ==
    \/ JobStarts
    \/ JobCreatesFile
    \/ JobWritesFile
    \/ JobRunsEngine
    \/ JobUnlinksFile

SpecJobs == InitJobs /\ [][NextJobs]_vars

(***************************************************************************)
(* Properties of the finished call                                         *)
(***************************************************************************)

\* the names the built-in registry holds, sorted
SixFormats == <<"docx", "epub", "html", "latex", "pdf", "pptx">>

\* C1: a convert or convert_string call whose format name, lower-cased, is
\* none of the six registered names raises InvalidFormatError carrying the
\* sorted six names, and has done nothing else before: its trace holds no
\* effect (no input validation, no directory creation, no subprocess) and
\* the filesystem is as it was.
C1_UnregisteredFormatRejectedFirst ==
    (/\ last.call.op \in {"convert", "convert_string"}
     /\ \A i \in 1..Len(SixFormats) : lower(last.call.output_format) # SixFormats[i])
    => /\ last.out.raised = "InvalidFormatError"
       /\ last.out.available = SixFormats
       /\ last.out.trace = <<>>
       /\ ~last.changed

\* convert of a missing input file to "rtf" with a destination was rejected
\* for its format
C1_Witness ==
    /\ last.call.op = "convert"
    /\ last.call.output_format = "rtf"
    /\ last.call.input = "missing.md"
    /\ last.call.output_file = "build/out.bin"
    /\ last.out.raised = "InvalidFormatError"

\* C2: a convert call with a registered format and an input path that does
\* not exist raises FileNotFoundError, and the only effect before it is the
\* validation of the input: no converter was constructed, no directory
\* created, no subprocess spawned, and the filesystem is as it was.
C2_MissingInputRejectedBeforeWork ==
    (/\ last.call.op = "convert"
     /\ \E i \in 1..Len(SixFormats) : lower(last.call.output_format) = SixFormats[i]
     /\ PathStr(last.call.input) \notin DOMAIN last.before)
    => /\ last.out.raised = "FileNotFoundError"
       /\ \A i \in 1..Len(last.out.trace) :
              last.out.trace[i].ev = "validate_file_exists"
       /\ ~last.changed

\* convert of a missing input file to pptx with a destination in a directory
\* that does not exist yet
C2_Witness ==
    /\ last.call.op = "convert"
    /\ last.call.output_format = "pptx"
    /\ last.call.input = "missing.md"
    /\ last.call.output_file = "build/out.bin"
    /\ "build" \notin DOMAIN last.before
    /\ last.out.raised = "FileNotFoundError"

\* the flags the claim C3 gives one entry of the mapping
C3_EntryFlags(key, value) ==
    CASE value = PyBool(FALSE) -> <<>>
      [] value = PyBool(TRUE) -> <<"--" \o key>>
      [] value.t = "list" ->
            [i \in 1..Len(value.items) |-> "--" \o key \o "=" \o Format(value.items[i])]
      [] OTHER -> <<"--" \o key \o "=" \o Format(value)>>

\* the flags the claim C3 gives a mapping: those of its entries, in mapping order
RECURSIVE C3_Flags(_)
C3_Flags(options) ==
    IF options = <<>> THEN <<>>
    ELSE C3_Flags(SubSeq(options, 1, Len(options) - 1))
         \o C3_EntryFlags(options[Len(options)].key, options[Len(options)].value)

\* C3: the "--" arguments that follow --from and --to in the command line of
\* a PandocWrapper.convert call are exactly the flags of the entries of its
\* options mapping, in mapping order: nothing for false, the bare --key for
\* true, one --key=item per element of a list in list order, one --key=value
\* for any other scalar.
C3_FlagsInMappingOrder ==
    last.call.op = "PandocWrapper.convert" =>
        LET cmd == last.out.trace[1].cmd
        IN  SelectSeq(SubSeq(cmd, 4, Len(cmd)), LAMBDA a : startswith(a, "--"))
            = C3_Flags(last.call.engine_options)

\* a call whose mapping holds a two-element list and a scalar
C3_Witness ==
    /\ last.call.op = "PandocWrapper.convert"
    /\ Len(last.call.engine_options) = 2
    /\ last.call.engine_options[1].value.t = "list"
    /\ Len(last.call.engine_options[1].value.items) = 2
    /\ Len(last.out.trace[1].cmd) >= 6
    /\ SubSeq(last.out.trace[1].cmd, 4, 6)
       = <<"--css=a.css", "--css=b.css", "--template=t.html">>

\* whether the input of the finished call is a string shorter than 260
\* characters, without a newline, that names an existing path
C4_InputNamesPath ==
    /\ Len(last.call.input) < 260
    /\ ~Contains(last.call.input, "\n")
    /\ PathStr(last.call.input) \in DOMAIN last.before

\* the positions of the command line, after --from and --to, that hold
\* neither a flag nor a part of the output option
C4_InputPositions ==
    LET cmd == last.out.trace[1].cmd
    IN  {i \in 4..Len(cmd) : /\ ~startswith(cmd[i], "--")
                              /\ cmd[i] # "-o"
                              /\ cmd[i - 1] # "-o"}

\* C4: PandocWrapper.convert passes the input as the one positional argument
\* and sends nothing on standard input exactly when it is a string shorter
\* than 260 characters, without a newline, that names an existing path;
\* otherwise the argument is "-" and standard input gets its UTF-8 bytes.
C4_InputDelivery ==
    last.call.op = "PandocWrapper.convert" =>
        LET spawn == last.out.trace[1]
        IN  /\ Cardinality(C4_InputPositions) = 1
            /\ IF C4_InputNamesPath
               THEN /\ \A i \in C4_InputPositions : spawn.cmd[i] = last.call.input
                    /\ ~spawn.has_stdin
                    /\ spawn.stdin = <<>>
               ELSE /\ \A i \in C4_InputPositions : spawn.cmd[i] = "-"
                    /\ spawn.has_stdin
                    /\ spawn.stdin = encode(last.call.input)

\* an existing path of 259 characters went into the command line
C4_Witness ==
    /\ last.call.op = "PandocWrapper.convert"
    /\ Len(last.call.input) = 259
    /\ last.call.input \in DOMAIN last.before
    /\ ~last.out.trace[1].has_stdin
    /\ last.out.raised = ""

\* the positions of "-o" in the command line of the finished call
C5_OutputPositions ==
    {i \in 1..(Len(last.out.trace[1].cmd) - 1) : last.out.trace[1].cmd[i] = "-o"}

\* C5: with a destination path PandocWrapper.convert puts "-o <path>" in the
\* command line, discards the engine's standard output and returns empty
\* bytes, and the facade returns None; without one it captures standard
\* output and returns it unchanged, and "-o -" is in the command line
\* exactly when the output format is docx, epub or pptx.
C5_OutputDelivery ==
    /\ last.call.op = "PandocWrapper.convert" =>
        LET spawn == last.out.trace[1]
        IN  IF TruthyStr(last.call.output_file)
            THEN /\ Cardinality(C5_OutputPositions) = 1
                 /\ \A i \in C5_OutputPositions : spawn.cmd[i + 1] = last.call.output_file
                 /\ spawn.stdout = "DEVNULL"
                 /\ last.out.raised = "" => (last.out.value = <<>> /\ ~last.out.none)
            ELSE /\ spawn.stdout = "PIPE"
                 /\ last.out.raised = ""
                    => (last.out.value = last.eng.stdout /\ ~last.out.none)
                 /\ \A i \in C5_OutputPositions : spawn.cmd[i + 1] = "-"
                 /\ C5_OutputPositions # {}
                    <=> last.call.output_format \in {"docx", "epub", "pptx"}
    /\ (/\ last.call.op \in {"convert", "convert_string"}
        /\ TruthyStr(last.call.output_file)
        /\ last.out.raised = "")
       => last.out.none

\* docx without a destination: "-o -" in the command line and the captured
\* bytes returned
C5_Witness ==
    /\ last.call.op = "PandocWrapper.convert"
    /\ last.call.output_format = "docx"
    /\ last.call.output_file = None
    /\ C5_OutputPositions # {}
    /\ last.out.raised = ""
    /\ last.out.value # <<>>

\* the parts of the command line of the finished call, as the claim C6
\* names them
C6_Head ==
    <<last.self, "--from=" \o last.call.input_format,
      "--to=" \o last.call.output_format>>
    \o C3_Flags(last.call.engine_options)

C6_Input == IF C4_InputNamesPath THEN <<last.call.input>> ELSE <<"-">>

C6_Output ==
    IF TruthyStr(last.call.output_file) THEN <<"-o", last.call.output_file>>
    ELSE IF last.call.output_format \in {"docx", "epub", "pptx"} THEN <<"-o", "-">>
    ELSE <<>>

\* C6 as stated: the command line is the engine path, --from, --to, the
\* flags, then the output option when there is one, and last the input
\* argument.
C6_InputArgumentLast ==
    last.call.op = "PandocWrapper.convert" =>
        last.out.trace[1].cmd = C6_Head \o C6_Output \o C6_Input

\* C6 as amended: the command line is the engine path, --from, --to, the
\* flags, then the input argument, and last the output option when there is
\* one.
C6_OutputOptionLast ==
    last.call.op = "PandocWrapper.convert" =>
        last.out.trace[1].cmd = C6_Head \o C6_Input \o C6_Output

\* a command line with flags, a positional input and a destination
C6_Witness ==
    /\ last.call.op = "PandocWrapper.convert"
    /\ last.call.engine_options # <<>>
    /\ last.call.output_file = "out.bin"
    /\ Len(last.out.trace[1].cmd) >= 7
    /\ SubSeq(last.out.trace[1].cmd, Len(last.out.trace[1].cmd) - 2,
              Len(last.out.trace[1].cmd))
       = <<"-", "-o", "out.bin">>

\* C7 as stated: when the engine process ran and exited with a non-zero
\* status, PandocWrapper.convert raises ConversionError, and the error
\* carries the text of the engine's standard error.
C7_NonZeroExitIsConversionError ==
    (/\ last.call.op = "PandocWrapper.convert"
     /\ is_file(last.before, last.self)
     /\ last.eng.rc # 0)
    => /\ last.out.raised = "ConversionError"
       /\ ~DecodeFails(last.eng.stderr)
       /\ Contains(last.out.stderr, decode(last.eng.stderr))

\* whether discovery finds no engine in the filesystem of the finished call
C8_NothingToDiscover ==
    \A p \in {WhichPandoc, PypandocBinary} : ~is_file(last.before, p)

C9_NormalizerIdempotent ==
    Len(md_out) >= 2 => md_out[2] = md_out[1]

\* the number of lines of text that are headings of level k: stripped, they
\* start with exactly k "#"
C10_Headings(text, k) ==
    LET lines == split(text, "\n")
    IN  Cardinality({i \in 1..Len(lines) :
                        /\ startswith(strip(lines[i]), Repeat("#", k))
                        /\ ~startswith(strip(lines[i]), Repeat("#", k + 1))})

\* the slide level the claim C10 gives a text
C10_Level(text) ==
    IF C10_Headings(text, 2) > 1 /\ C10_Headings(text, 1) <= 1 THEN 2 ELSE 1

C11_IsHeading(line, k) ==
    /\ startswith(strip(line), Repeat("#", k))
    /\ Len(strip(line)) > k
    /\ Char(strip(line), k + 1) \in {" ", "\t"}

\* whether every heading at level k of the text, other than the first, has
\* a blank line right before it, "---" alone on the line before that, and a
\* blank line before the "---"
C11_BreaksIn(text, k) ==
    LET lines == split(text, "\n")
        headings == {i \in 1..Len(lines) : C11_IsHeading(lines[i], k)}
    IN  \A i \in headings :
            (\E j \in headings : j < i)
            => /\ i > 3
               /\ strip(lines[i - 1]) = ""
               /\ lines[i - 2] = "---"
               /\ strip(lines[i - 3]) = ""

\* C11: in every output of the slide-structure normalizer, each heading at
\* the slide level other than the first is immediately preceded by a "---"
\* marker on a line of its own, with a blank line directly before the marker
\* and a blank line between the marker and the heading.
C11_BreakBeforeLaterSlides ==
    \A p \in 1..Len(md_out) : C11_BreaksIn(md_out[p], md_level)

\* a text whose second slide heading directly follows a line of body text
\* was normalized
C11_Witness ==
    /\ md_in = "# A\ntext\n# A"
    /\ md_level = 1
    /\ md_out # <<>>
    /\ md_out[1] = "# A\n\ntext\n\n---\n\n# A"

(***************************************************************************)
(* Properties of the metadata injector                                     *)
(***************************************************************************)

\* the option keys that resolve to style pairs
C12_StyleKeys ==
    {"theme_color", "background_color", "heading_color", "font_family", "font_size",
     "background_image"}

\* C12: when the options hold none of the six styling keys, the metadata
\* injector returns the document as it was given, whether or not the
\* document has front matter.
C12_NoPairsIsIdentity ==
    (md_out # <<>> /\ DOMAIN md_style \cap C12_StyleKeys = {}) => md_out[1] = md_in

\* a document with front matter went through the injector with options that
\* hold no styling key, and came back as it was
C12_Witness ==
    /\ md_in = "---\ntitle: T\n---\nbody"
    /\ DOMAIN md_style = {"toc", "slide_level"}
    /\ md_out = <<md_in>>

\* the style pairs the options resolve to, as lines "key: value"
C13_Pairs(options) ==
    LET present == SelectSeq(styling_options, LAMBDA p : p[1] \in DOMAIN options)
    IN  [i \in 1..Len(present) |->
            present[i][2] \o ": " \o Format(options[present[i][1]])]

\* the line of the closing delimiter: the first line after the first whose
\* text, stripped, is the delimiter; 0 when there is none
C13_Closing(lines) ==
    LET ends == {i \in 2..Len(lines) : strip(lines[i]) = "---"}
    IN  IF ends = {} THEN 0 ELSE CHOOSE a \in ends : \A b \in ends : a <= b

\* whether the document begins with a delimiter line, has a closing
\* delimiter and receives at least one style pair
C13_HasFrontMatter ==
    /\ md_out # <<>>
    /\ strip(split(md_in, "\n")[1]) = "---"
    /\ C13_Closing(split(md_in, "\n")) # 0
    /\ C13_Pairs(md_style) # <<>>

\* the output the claim C13 describes, given the lines kept of the block:
\* one leading block of the kept lines, then the new pairs, then the
\* closing delimiter, then the body as it was
C13_Merged(kept) ==
    LET lines == split(md_in, "\n")
        closing == C13_Closing(lines)
    IN  join("\n", <<"---">> \o kept \o C13_Pairs(md_style) \o <<"---">>)
        \o "\n" \o join("\n", SubSeq(lines, closing + 1, Len(lines)))

\* the lines of the existing front-matter block
C13_Existing ==
    SubSeq(split(md_in, "\n"), 2, C13_Closing(split(md_in, "\n")) - 1)

\* C13 as stated: the output has one leading block that holds every line of
\* the existing block in its order, then the new pairs, then the closing
\* delimiter, and the body after the block is unchanged.
C13_EveryLineKept ==
    C13_HasFrontMatter => md_out[1] = C13_Merged(C13_Existing)

\* C13 as amended: the same, the lines of the existing block being kept
\* when one of them is not blank; a block of blank lines only is dropped.
C13_LinesKeptUnlessAllBlank ==
    C13_HasFrontMatter
    => md_out[1] = C13_Merged(IF \A i \in 1..Len(C13_Existing) :
                                     strip(C13_Existing[i]) = ""
                              THEN <<>> ELSE C13_Existing)

\* a block of one key received two pairs
C13_Witness ==
    /\ md_in = "---\ntitle: T\n---\nbody"
    /\ DOMAIN md_style = {"font_family", "font_size"}
    /\ md_out = <<"---\ntitle: T\nfont-family: Arial\nfont-size: 2\n---\nbody">>

\* the keys of the lines "key: value" among lines[lo..hi], one per line
C14_Keys(lines, lo, hi) ==
    LET at == {i \in lo..hi : Contains(lines[i], ":")}
    IN  [i \in at |-> SubSeq(lines[i], 1, FindFrom(lines[i], ":", 1) - 1)]

\* whether no key occurs on two lines
C14_Distinct(keys) ==
    \A i, j \in DOMAIN keys : i # j => keys[i] # keys[j]

\* C14 as stated: after style pairs are injected into a document whose
\* front-matter block defines no key twice, no key occurs more than once
\* in the block of the output.
C14_NoDuplicateKeys ==
    LET lines == split(md_in, "\n")
        injected == split(md_out[1], "\n")
    IN  (/\ C13_HasFrontMatter
         /\ C14_Distinct(C14_Keys(lines, 2, C13_Closing(lines) - 1)))
        => C14_Distinct(C14_Keys(injected, 2, C13_Closing(injected) - 1))

(***************************************************************************)
(* Properties of the converters, seen in the finished call                 *)
(***************************************************************************)

\* whether the finished call is a facade call for the format fmt
FacadeCallTo(fmt) ==
    /\ last.call.op \in {"convert", "convert_string"}
    /\ lower(last.call.output_format) = fmt

\* the events ev of the finished call, in order
EventsOf(ev) == SelectSeq(last.out.trace, LAMBDA e : e.ev = ev)

\* the "--" arguments that follow --from and --to in a command line
FlagsIn(cmd) == SelectSeq(SubSeq(cmd, 4, Len(cmd)), LAMBDA a : startswith(a, "--"))

\* the outcome of the finished call had it been made with these options, in
\* the same filesystem and the same world
SameCallWith(options) ==
    IF last.call.op = "convert"
    THEN Converter_convert(registry, last.self, last.call.input,
                           last.call.output_format, last.call.output_file, options,
                           last.before, last.world)
    ELSE Converter_convert_string(registry, last.self, last.call.input,
                                  last.call.output_format, last.call.output_file,
                                  options, last.before, last.world)

\* the five keys a theme preset holds
C15_PresetKeys ==
    {"theme_color", "background_color", "heading_color", "font_family", "font_size"}

\* whether the theme option of the finished call names a preset
C15_ThemeKnown ==
    /\ "theme" \in DOMAIN last.call.options
    /\ last.call.options["theme"]
       \in {PyStr(n) : n \in {"modern", "classic", "minimal", "dark", "corporate"}}

\* the values the claim C15 gives the five keys: the caller's where the
\* caller supplied one, else the preset's when the theme names a preset
C15_Resolved ==
    [k \in {k \in C15_PresetKeys : k \in DOMAIN last.call.options \/ C15_ThemeKnown} |->
        IF k \in DOMAIN last.call.options THEN last.call.options[k]
        ELSE PPTX_THEMES[last.call.options["theme"].s][k]]

\* C15: the text a pptx conversion writes for the engine carries, for each
\* of the five preset keys, the caller's value when the caller supplied one,
\* else the preset's value when the theme option names one of the five
\* presets exactly, else no pair; and a theme option that names no preset
\* raises nothing and changes nothing: the call ends as it would without it.
C15_ThemeResolved ==
    FacadeCallTo("pptx") =>
        /\ \A i \in 1..Len(EventsOf("write")) : \A p \in 1..5 :
              IF styling_options[p][1] \in DOMAIN C15_Resolved
              THEN Contains(EventsOf("write")[i].cmd[1],
                            "\n" \o styling_options[p][2] \o ": "
                            \o Format(C15_Resolved[styling_options[p][1]]) \o "\n")
              ELSE ~Contains(EventsOf("write")[i].cmd[1],
                             styling_options[p][2] \o ": ")
        /\ ("theme" \in DOMAIN last.call.options /\ ~C15_ThemeKnown)
           => /\ last.out.raised # "KeyError"
              /\ last.out = [SameCallWith([k \in DOMAIN last.call.options \ {"theme"} |->
                                              last.call.options[k]])
                             EXCEPT !.fs = <<>>]

\* theme modern with font_size=2: the text written carries the preset's
\* font family and the caller's font size, and the engine ran
C15_Witness ==
    /\ FacadeCallTo("pptx")
    /\ C15_ThemeKnown
    /\ Get(last.call.options, "font_size", NoneValue) = PyInt(2)
    /\ Len(EventsOf("write")) = 1
    /\ Contains(EventsOf("write")[1].cmd[1],
                "---\ntheme-color: #3498db\nbackground-color: #ffffff\n"
                \o "heading-color: #2c3e50\nfont-family: Arial\nfont-size: 2\n---\n")
    /\ last.out.raised = ""

\* whether the converter of the finished facade call was constructed and its
\* convert entered
ConverterEntered ==
    EventsOf("construct") # <<>> /\ "input_data" \notin DOMAIN last.call.options

\* C16: a pdf conversion whose pdf_engine is absent or "xhtml2pdf" takes the
\* pure-render path: it fails at once when the renderer is not installed,
\* and runs the engine only with --to=html and without a pdf-engine flag;
\* with any other engine name it never enters that path: the engine is run
\* with --to=pdf and --pdf-engine=<name>, whether or not the renderer is
\* installed, and nothing is rendered in process.
C16_PdfDispatch ==
    (FacadeCallTo("pdf") /\ ConverterEntered) =>
        IF Get(last.call.options, "pdf_engine", PyStr("xhtml2pdf")) = PyStr("xhtml2pdf")
        THEN /\ \A i \in 1..Len(EventsOf("subprocess.run")) :
                  /\ EventsOf("subprocess.run")[i].cmd[3] = "--to=html"
                  /\ \A j \in 1..Len(EventsOf("subprocess.run")[i].cmd) :
                        /\ EventsOf("subprocess.run")[i].cmd[j] # "--to=pdf"
                        /\ ~startswith(EventsOf("subprocess.run")[i].cmd[j],
                                       "--pdf-engine")
             /\ IF last.world.render.installed
                THEN Len(EventsOf("subprocess.run")) = 1
                ELSE /\ EventsOf("subprocess.run") = <<>>
                     /\ last.out.raised = "ConversionError"
        ELSE /\ Len(EventsOf("subprocess.run")) = 1
             /\ SubSeq(EventsOf("subprocess.run")[1].cmd, 3, 4)
                = <<"--to=pdf",
                    "--pdf-engine=" \o last.call.options["pdf_engine"].s>>
             /\ EventsOf("pisa.CreatePDF") = <<>>
             /\ ~Contains(last.out.message, "xhtml2pdf")

\* pdf_engine xelatex while the in-process renderer is not installed: the
\* engine was run for pdf and the call returned
C16_Witness ==
    /\ FacadeCallTo("pdf")
    /\ Get(last.call.options, "pdf_engine", NoneValue) = PyStr("xelatex")
    /\ ~last.world.render.installed
    /\ Len(EventsOf("subprocess.run")) = 1
    /\ EventsOf("subprocess.run")[1].cmd[4] = "--pdf-engine=xelatex"
    /\ last.out.raised = ""

\* C17 as stated: after a pptx conversion has returned or raised, the
\* temporary file it created no longer exists.
C17_TemporaryFileDeleted ==
    FacadeCallTo("pptx") =>
        \A i \in 1..Len(EventsOf("NamedTemporaryFile")) :
            EventsOf("NamedTemporaryFile")[i].path \notin DOMAIN fs

\* the text a pptx conversion of the finished call works on: the content of
\* the file when the input names an existing path, else the input
C19_Content ==
    IF C4_InputNamesPath THEN decode(last.before[PathStr(last.call.input)].data)
    ELSE last.call.input

\* the flags the claim C19 gives a format with an empty options mapping
C19_DefaultFlags(fmt) ==
    CASE fmt = "latex" -> <<"--variable=documentclass:article">>
      [] fmt = "epub" -> <<"--toc", "--toc-depth=3">>
      [] fmt = "pptx" -> <<"--slide-level=" \o ToString(C10_Level(C19_Content))>>
      [] OTHER -> <<>>

C20_Recognized(fmt) ==
    CASE fmt = "html" -> {"standalone", "toc", "toc_depth", "css", "template", "mathjax"}
      [] fmt = "docx" -> {"reference_doc", "toc", "toc_depth"}
      [] fmt = "latex" -> {"standalone", "documentclass", "toc", "toc_depth", "geometry"}
      [] fmt = "epub" -> {"toc", "toc_depth", "epub_cover_image", "epub_metadata"}
      [] fmt = "pdf" -> {"pdf_engine", "toc", "toc_depth", "highlight_style", "geometry",
                         "fontsize", "standalone"}
      [] OTHER -> {"theme", "slide_level", "reference_doc", "toc", "toc_depth"}
                  \cup C12_StyleKeys

\* the outcome of the finished call had its options held only the keys its
\* format reads
C20_WithoutExtraKeys ==
    SameCallWith([k \in DOMAIN last.call.options
                        \cap C20_Recognized(lower(last.call.output_format)) |->
                    last.call.options[k]])

\* C20 as stated: a facade call for a registered format runs the engine
\* with the same command lines and the same input text, writes the same
\* text, and raises the same or nothing, as the same call without the
\* option keys its format does not read.
C20_UnrecognizedKeysIgnored ==
    (/\ last.call.op \in {"convert", "convert_string"}
     /\ has_format(registry, last.call.output_format))
    => /\ EventsOf("subprocess.run")
          = SelectSeq(C20_WithoutExtraKeys.trace, LAMBDA e : e.ev = "subprocess.run")
       /\ EventsOf("write")
          = SelectSeq(C20_WithoutExtraKeys.trace, LAMBDA e : e.ev = "write")
       /\ last.out.raised = C20_WithoutExtraKeys.raised

(***************************************************************************)
(* Properties of the registry                                              *)
(***************************************************************************)

\* the names registered so far, lower-cased
C18_Lowered == {lower(reg_log[i].format_name) : i \in 1..Len(reg_log)}

\* the class of the last register call under any case variant of name
C18_LastRegistered(name) ==
    LET calls == {i \in 1..Len(reg_log) : lower(reg_log[i].format_name) = name}
    IN  reg_log[CHOOSE i \in calls : \A j \in calls : j <= i].converter_class

\* the names has_format and get are asked for
C18_Queries == RegisteredNames \cup {"PDF", "Pdf", "docx", "DOCX"}

\* C18: after any sequence of register calls the registry holds exactly one
\* class per lower-cased name, the one registered last under any case
\* variant of the name; has_format and get answer alike for every case
\* variant of a name; and list_formats is the lower-cased names in
\* ascending order, each once.
C18_LastRegistrationWins ==
    /\ DOMAIN registry = C18_Lowered
    /\ \A name \in C18_Lowered : registry[name] = C18_LastRegistered(name)
    /\ \A q \in C18_Queries :
          /\ has_format(registry, q) <=> lower(q) \in C18_Lowered
          /\ get(registry, q) = (IF lower(q) \in C18_Lowered
                                 THEN C18_LastRegistered(lower(q)) ELSE None)
    /\ {list_formats(registry)[i] : i \in 1..Len(list_formats(registry))} = C18_Lowered
    /\ \A i, j \in 1..Len(list_formats(registry)) :
          i < j => StrLess(list_formats(registry)[i], list_formats(registry)[j])

\* "html" was registered under three case variants with three classes, and
\* the registry answers with the last, under every variant
C18_Witness ==
    /\ reg_log = <<[format_name |-> "html", converter_class |-> "HTMLConverter"],
                   [format_name |-> "Html", converter_class |-> "PDFConverter"],
                   [format_name |-> "HTML", converter_class |-> "DOCXConverter"]>>
    /\ list_formats(registry) = <<"html">>
    /\ get(registry, "html") = "DOCXConverter"
    /\ get(registry, "Html") = "DOCXConverter"

(***************************************************************************)
(* Properties of the API server                                            *)
(***************************************************************************)

\* C21: when an API key is configured, a request to /convert whose
\* X-API-Key header is not the configured key is answered with 401 and no
\* conversion is performed.
C21_ConvertRequiresKey ==
    (/\ api.API_KEY # ""
     /\ api.request.path = "/convert"
     /\ api.request.key # api.API_KEY)
    => /\ api.reply.status = 401
       /\ ~api.reply.converted

(***************************************************************************)
(* Further properties of the slide-structure normalizer                    *)
(***************************************************************************)

\* whether every heading at level k of the text that is not its last line
\* is directly followed by a blank line or by a "---" line
C22_SpacedIn(text, k) ==
    LET lines == split(text, "\n")
    IN  \A i \in 1..(Len(lines) - 1) :
            C11_IsHeading(lines[i], k)
            => \/ strip(lines[i + 1]) = ""
               \/ strip(lines[i + 1]) = "---"

\* C22: in every output of the slide-structure normalizer, each heading at
\* the slide level (stripped: slide_level "#" and then a space or a tab)
\* that is not the last line is directly followed by a blank line, unless
\* the line after it is a "---" break marker.
C22_BlankAfterSlideHeading ==
    \A p \in 1..Len(md_out) : C22_SpacedIn(md_out[p], md_level)

\* the number of lines of the text that are "---" exactly
C23_Markers(text) ==
    LET lines == split(text, "\n")
    IN  Cardinality({i \in 1..Len(lines) : lines[i] = "---"})

\* the number of headings at level k of the text
C23_Headings(text, k) ==
    LET lines == split(text, "\n")
    IN  Cardinality({i \in 1..Len(lines) : C11_IsHeading(lines[i], k)})

\* whether the marker before each later heading at level k of the output
\* accounts for every marker the pass added
C23_OnePerLaterHeading(before, after, k) ==
    LET n == C23_Headings(before, k)
        lines == split(after, "\n")
        later == {i \in 1..Len(lines) :
                    /\ C11_IsHeading(lines[i], k)
                    /\ \E j \in 1..(i - 1) : C11_IsHeading(lines[j], k)}
    IN  /\ C23_Markers(after) - C23_Markers(before) = (IF n > 1 THEN n - 1 ELSE 0)
        /\ C23_Headings(after, k) = n
        /\ Cardinality(later) = (IF n > 1 THEN n - 1 ELSE 0)
        /\ \A i \in later : i > 2 /\ lines[i - 2] = "---"

\* C23: a pass of the normalizer over a text with n headings at exactly the
\* slide level adds exactly max(0, n-1) "---" lines, one before each such
\* heading but the first; headings of any other level get none.
C23_BreaksByExactLevel ==
    \A p \in 1..Len(md_out) :
        C23_OnePerLaterHeading(IF p = 1 THEN md_in ELSE md_out[p - 1], md_out[p],
                               md_level)

\* a text with two level-1 headings and a level-2 heading between them was
\* normalized at level 1: one marker, before the second level-1 heading
C23_Witness ==
    /\ md_in = "# A\n## B\n# A"
    /\ md_level = 1
    /\ md_out # <<>>
    /\ md_out[1] = "# A\n\n## B\n\n---\n\n# A"

\* the text the normalizer holds before its final cleanup
C24_BeforeCleanup(content, k) ==
    LET first == join("\n", InsertBreaks(split(content, "\n"), k, FALSE, <<>>))
    IN  join("\n", SpaceHeadings(split(first, "\n"), 1, Repeat("#", k) \o " "))

\* the number of empty lines at the head of the lines
RECURSIVE C24_BlankRun(_)
C24_BlankRun(lines) ==
    IF lines = <<>> \/ Head(lines) # "" THEN 0 ELSE 1 + C24_BlankRun(Tail(lines))

\* the lines with every run of three or more empty lines made one empty
\* line, and every shorter run kept
RECURSIVE C24_Collapsed(_)
C24_Collapsed(lines) ==
    IF lines = <<>> THEN <<>>
    ELSE IF Head(lines) # "" THEN <<Head(lines)>> \o C24_Collapsed(Tail(lines))
    ELSE LET n == C24_BlankRun(lines)
         IN  (IF n >= 3 THEN <<"">> ELSE SubSeq(lines, 1, n))
             \o C24_Collapsed(SubSeq(lines, n + 1, Len(lines)))

\* C24: the final cleanup of the normalizer makes every run of three or
\* more consecutive blank lines exactly one blank line, and keeps a run of
\* one or two blank lines as it is.
C24_OnlyLongRunsCollapsed ==
    \A p \in 1..Len(md_out) :
        split(md_out[p], "\n")
        = C24_Collapsed(split(C24_BeforeCleanup(IF p = 1 THEN md_in ELSE md_out[p - 1],
                                                md_level), "\n"))

(***************************************************************************)
(* Further properties of the metadata injector                             *)
(***************************************************************************)

\* whether the document has no front matter (its first line is not a
\* delimiter line, or no closing delimiter follows it) and receives at
\* least one style pair
C25_NoFrontMatter ==
    /\ md_out # <<>>
    /\ \/ strip(split(md_in, "\n")[1]) # "---"
       \/ C13_Closing(split(md_in, "\n")) = 0
    /\ C13_Pairs(md_style) # <<>>

\* C25: when the document has no front matter and at least one style option
\* is supplied, the output of the metadata injector is a new block between
\* two "---" lines holding one line "hyphenated-key: value" per supplied
\* style option, in the fixed order of the six keys, followed by the
\* document as it was given.
C25_NewBlockThenDocument ==
    C25_NoFrontMatter
    => md_out[1] = join("\n", <<"---">> \o C13_Pairs(md_style) \o <<"---">>)
                   \o "\n" \o md_in

(***************************************************************************)
(* Properties of the pure-render path                                      *)
(***************************************************************************)

\* whether the finished call took the pure-render path and the engine
\* returned HTML text to it
C26_HtmlReturned ==
    /\ FacadeCallTo("pdf")
    /\ ConverterEntered
    /\ Get(last.call.options, "pdf_engine", PyStr("xhtml2pdf")) = PyStr("xhtml2pdf")
    /\ last.world.render.installed
    /\ EventsOf("subprocess.run") # <<>>
    /\ last.out.raised # "PandocNotFoundError"
    /\ last.eng.rc = 0
    /\ last.eng.stdout # <<>>
    /\ ~DecodeFails(last.eng.stdout)

\* whether the HTML holds the minimal stylesheet once: right before the
\* closing head tag when there is one, else right after the opening body tag
C26_Placed(html) ==
    LET at == {i \in 1..(Len(html) - Len(minimal_css) + 1) :
                 SubSeq(html, i, i + Len(minimal_css) - 1) = minimal_css}
        head == FindFrom(lower(html), "</head>", 1)
    IN  /\ Cardinality(at) = 1
        /\ \A i \in at :
              IF head # 0 THEN i + Len(minimal_css) = head
              ELSE /\ i > 1
                   /\ Char(html, i - 1) = ">"
                   /\ \E b \in 1..(i - 6) :
                         /\ SubSeq(lower(html), b, b + 4) = "<body"
                         /\ FindFrom(html, ">", b + 5) = i - 1

\* C26: for every HTML text the engine returns on the pure-render path, the
\* cleaning step completes without error and the HTML handed to the
\* in-process renderer holds the minimal stylesheet exactly once, before the
\* closing head tag when there is a head section, else after the opening
\* body tag.
C26_StylesheetOnce ==
    C26_HtmlReturned
    => /\ last.out.raised # "UnboundLocalError"
       /\ EventsOf("pisa.CreatePDF") # <<>> \/ last.out.raised = "IsADirectoryError"
       /\ \A i \in 1..Len(EventsOf("pisa.CreatePDF")) :
             C26_Placed(EventsOf("pisa.CreatePDF")[i].cmd[1])

(***************************************************************************)
(* Properties of a caller's successive conversions                         *)
(***************************************************************************)

\* what a conversion of a process that has made none produces for this
\* input, format and options
C27_Fresh(entry) ==
    Produced(Converter_convert_string(BuiltinRegistry, WhichPandoc, entry.content,
                                      entry.output_format, None, entry.options,
                                      InitialFiles, SessionWorld(InitialFiles)))

C28_Holds(i) == jobs[i].pc \in {"created", "written", "ran"}

\* C28: under every interleaving of the pptx conversions, two conversions
\* that hold a temporary file hold files of different names; the file of a
\* conversion that has written it and not yet run the engine is in place
\* with that conversion's text; and the engine run of every conversion read
\* the text of that conversion.
C28_OwnTemporaryFileOnly ==
    /\ \A i, j \in 1..Len(jobs) :
          (i # j /\ C28_Holds(i) /\ C28_Holds(j))
          => jobs[i].tmp_file_path # jobs[j].tmp_file_path
    /\ \A i \in 1..Len(jobs) :
          jobs[i].pc = "written"
          => /\ is_file(fs, jobs[i].tmp_file_path)
             /\ fs[jobs[i].tmp_file_path].data = encode(input_with_metadata(jobs[i].text))
    /\ \A i \in 1..Len(jobs) :
          jobs[i].pc \in {"ran", "returned"}
          => jobs[i].read = encode(input_with_metadata(jobs[i].text))

\* two conversions ran their engines while both held their files, each on
\* its own text
C28_Witness ==
    /\ Len(jobs) = 2
    /\ jobs[1].pc = "ran"
    /\ jobs[2].pc = "ran"
    /\ jobs[1].read # jobs[2].read
    /\ jobs[1].tmp_file_path \in DOMAIN fs
    /\ jobs[2].tmp_file_path \in DOMAIN fs

(***************************************************************************)
(* Content kept by the slide-structure normalizer                          *)
(***************************************************************************)

\* the lines of the text that are not empty, in order
C29_NonEmpty(text) == SelectSeq(split(text, "\n"), LAMBDA line : line # "")

\* whether b is a with exactly n "---" lines put in: the other lines of b
\* are the lines of a, in order
RECURSIVE C29_OnlyMarkersAdded(_, _, _)
C29_OnlyMarkersAdded(a, b, n) ==
    IF b = <<>> THEN a = <<>> /\ n = 0
    ELSE \/ /\ a # <<>>
            /\ Head(a) = Head(b)
            /\ C29_OnlyMarkersAdded(Tail(a), Tail(b), n)
         \/ /\ n > 0
            /\ Head(b) = "---"
            /\ C29_OnlyMarkersAdded(a, Tail(b), n - 1)

\* C29: for every input and slide level, the non-empty lines of the output
\* of the normalizer, the "---" lines it inserted left out, are the
\* non-empty lines of the input, in order and each as it was.
C29_ContentKept ==
    \A p \in 1..Len(md_out) :
        LET before == IF p = 1 THEN md_in ELSE md_out[p - 1]
        IN  C29_OnlyMarkersAdded(C29_NonEmpty(before), C29_NonEmpty(md_out[p]),
                                 C23_Markers(md_out[p]) - C23_Markers(before))

\* a text with its own "---" line between two slide headings was normalized:
\* one marker was added, every line of the text is in the output
C29_Witness ==
    /\ md_in = "# A\n---\n# A"
    /\ md_level = 1
    /\ md_out # <<>>
    /\ md_out[1] = "# A\n---\n\n---\n\n# A"

(***************************************************************************)
(* Properties of the server's converter cache                              *)
(***************************************************************************)

\* the get_converter call of the request just answered, if it made one
C30_Call == api'.reply.got

\* C30: at most one of the cached instance and the cached error is set;
\* once an instance is cached, every later get_converter call returns that
\* instance and constructs nothing; once an error is cached, every later
\* call raises that error and constructs nothing, so discovers no engine.
C30_WriteOnce ==
    [][/\ ~(api'._converter_instance # 0 /\ api'._converter_error # 0)
       /\ api'.constructions <= 1
       /\ (api._converter_instance # 0 /\ api' # api)
          => /\ api'._converter_instance = api._converter_instance
             /\ api'._converter_error = 0
             /\ C30_Call.called
                => /\ ~C30_Call.constructed
                   /\ C30_Call.raised = 0
                   /\ C30_Call.value = api._converter_instance
       /\ (api._converter_error # 0 /\ api' # api)
          => /\ api'._converter_error = api._converter_error
             /\ api'._converter_instance = 0
             /\ C30_Call.called
                => /\ ~C30_Call.constructed
                   /\ C30_Call.value = 0
                   /\ C30_Call.raised = api._converter_error]_vars

\* construction failed for lack of an engine; an engine is installed since,
\* and a later request was answered with the cached error, nothing
\* constructed
C30_Witness ==
    /\ api._converter_error = 1
    /\ api._converter_instance = 0
    /\ api.constructions = 1
    /\ is_file(fs, WhichPandoc)
    /\ api.reply.got.called
    /\ ~api.reply.got.constructed
    /\ api.reply.got.raised = 1
    /\ api.reply.status = 500

====
